---- MODULE Spec2Model ----
(***************************************************************************)
(* PhotoStream: the document store (users, photos, comments, ratings,     *)
(* likes), the media host, the read-through cache, and the request        *)
(* handlers that run over them.  Every await of a handler (a store call,  *)
(* a cache call, a media-host call) is one step of the task running it,   *)
(* so that tasks interleave exactly at the handler's suspension points.   *)
(*                                                                         *)
(* ObjectIds are the integers 1, 2, ...; the string a client sends for    *)
(* one is its rendering Str(i), as the API emits it.  Path parameters are *)
(* strings: a rendering of an id, or text that ObjectId() rejects.        *)
(***************************************************************************)
EXTENDS Integers, Sequences, FiniteSets, TLC

VARIABLES
    users,      \* db.users:    ObjectId -> document
    photos,     \* db.photos:   ObjectId -> document (a function on its field names)
    photoSeq,   \* number of ObjectIds db.photos.insert_one has issued
    ratings,    \* db.ratings:  set of documents [_id, photo_id, user_id, rating]
    likes,      \* db.likes:    set of documents [_id, photo_id, user_id]
    comments,   \* db.comments: set of documents [_id, photo_id, user_id]
    media,      \* the media host: public ids of the images it holds
    cache,      \* the cache store: key string -> cached value (absent keys not in DOMAIN)
    pc,         \* per task: the await the handler is suspended at, or "idle"
    req,        \* per task: the request being served
    loc,        \* per task: the handler's local variables
    returned,   \* the response delivered by the step just taken (NoResponse otherwise)
    watching,   \* the routes whose responses the next request remembers (history)
    cacheUp,    \* whether the cache store answers (reachable, its calls do not raise)
    db,         \* the document store: "up", "down" (unreachable) or "none" (no handle)
    workload,   \* what the clients send: "any" request, or requests of one kind only
    cache_service   \* the CacheService instance: [enabled, redis_client (whether set)]

vars == <<users, photos, photoSeq, ratings, likes, comments, media, cache,
          pc, req, loc, returned, watching, cacheUp, db, workload, cache_service>>

\* What no request handler changes.
env == <<watching, cacheUp, db, workload, cache_service>>

store == <<users, photos, photoSeq, ratings, likes, comments, media>>

(***************************************************************************)
(* Bounds of the model.                                                    *)
(***************************************************************************)
NUsers    == 2      \* registered accounts
MaxPhotos == 2      \* photos ever inserted
NTasks    == 2      \* requests in flight at once
MaxComments == 1    \* comments ever inserted

UserOids  == 1..NUsers
PhotoOids == 1..MaxPhotos
Tasks     == 1..NTasks

(***************************************************************************)
(* Values.                                                                 *)
(***************************************************************************)
None     == [none |-> TRUE]          \* Python's None (an Optional without a value)
Some(v)  == [v |-> v]
IsNone(o) == o = None

Str(i) == ToString(i)                \* str(ObjectId)

\* ObjectId(s): the id a well-formed string denotes; malformed strings raise.
BadId == "zz"
WellFormed(s) == \E i \in 1..(MaxPhotos + 1) : Str(i) = s
ObjectId(s)   == CHOOSE i \in 1..(MaxPhotos + 1) : Str(i) = s

\* The path parameters clients send: every id the store may issue (an id not
\* issued yet, or deleted, names no photo) and one malformed string.
PhotoIdInputs == {Str(i) : i \in 1..MaxPhotos} \cup {BadId}

(***************************************************************************)
(* Requests, responses, and the inputs of the requests.                    *)
(***************************************************************************)
NoRequest  == [route |-> "none"]             \* the task serves no request
NoResponse == [route |-> "none"]             \* the step delivered no response

RatingInputs == {2, 4}                       \* RatingCreate.rating, within 1..5
\* PhotoUpdate.dict(exclude_unset=True): only the fields the client sent.
UpdateInputs == { << >>, [title |-> Some("bay")] }
\* get_photos(page, page_size, search, location)
ListInputs == { [page |-> 1, page_size |-> 1, search |-> None, location |-> None],
                [page |-> 2, page_size |-> 1, search |-> None, location |-> None],
                [page |-> 1, page_size |-> 2, search |-> Some("s"), location |-> None] }
CreateInputs == { [title |-> "Sun", location |-> None] }

(***************************************************************************)
(* Strings.                                                                *)
(***************************************************************************)
LowerChar(c) == CASE c = "S" -> "s" [] c = "R" -> "r" [] OTHER -> c

RECURSIVE Lower(_)
Lower(s) == IF Len(s) = 0 THEN s
            ELSE LowerChar(SubSeq(s, 1, 1)) \o Lower(SubSeq(s, 2, Len(s)))

\* {"$regex": pat, "$options": "i"} for a pattern without metacharacters:
\* pat occurs in s, letter case ignored.
RegexI(s, pat) ==
    \E i \in 1..(Len(s) - Len(pat) + 1) :
        Lower(SubSeq(s, i, i + Len(pat) - 1)) = Lower(pat)

StartsWith(s, pre) == Len(s) >= Len(pre) /\ SubSeq(s, 1, Len(pre)) = pre

\* f"{x}" of an Optional[str]
Fmt(o) == IF IsNone(o) THEN "None" ELSE o.v

(***************************************************************************)
(* The cache service (cache_service.py), over an operational Redis.        *)
(***************************************************************************)
\* A service that goes to the cache store whenever the store answers.
CacheUsableIfUp == cacheUp

\* `if not self.enabled or not self.redis_client: return None / False`, and
\* the call to the cache store not raising.
CacheUsable == cache_service.enabled /\ cache_service.redis_client /\ cacheUp

\* Python truthiness of a cached value: an empty list is false.
Truthy(v) == IF "list" \in DOMAIN v THEN Len(v.list) > 0 ELSE TRUE

\* A get that answers from the entries even while the cache store is away.
CacheHitBlind(c, key) == key \in DOMAIN c /\ Truthy(c[key])

\* CacheService.get: the value when the key is present and truthy; None when
\* the service is disabled or the call raises.
CacheHit(c, key) == CacheUsable /\ key \in DOMAIN c /\ Truthy(c[key])

\* CacheService.set (setex): store the value under the key; nothing is
\* stored (and False returned) when the service is disabled or the call raises.
CacheSet(c, key, value) ==
    IF ~CacheUsable THEN c
    ELSE [k \in DOMAIN c \cup {key} |-> IF k = key THEN value ELSE c[k]]

\* A delete that removes nothing.
CacheKeep(c, key) == c

\* CacheService.delete; nothing is deleted when the service is disabled or
\* the call raises.
CacheDelete(c, key) == IF ~CacheUsable THEN c ELSE [k \in DOMAIN c \ {key} |-> c[k]]

\* A glob whose pattern may match anywhere in the key.
GlobMatchAnywhere(pattern, key) ==
    IF Len(pattern) > 0 /\ SubSeq(pattern, Len(pattern), Len(pattern)) = "*"
    THEN \E i \in 1..Len(key) :
             StartsWith(SubSeq(key, i, Len(key)), SubSeq(pattern, 1, Len(pattern) - 1))
    ELSE key = pattern

\* Redis glob matching for the patterns the services use: a trailing "*"
\* matches any suffix, every other character matches itself.
GlobMatch(pattern, key) ==
    IF Len(pattern) > 0 /\ SubSeq(pattern, Len(pattern), Len(pattern)) = "*"
    THEN StartsWith(key, SubSeq(pattern, 1, Len(pattern) - 1))
    ELSE key = pattern

\* CacheService.delete_pattern: keys(pattern), then delete(*keys)
CacheDeletePattern(c, pattern) ==
    IF ~CacheUsable THEN c
    ELSE [k \in {x \in DOMAIN c : ~GlobMatch(pattern, x)} |-> c[k]]

PhotoKey(photo_id)     == "photo:" \o photo_id
CreatorKey(creator_id) == "creator_photos:" \o creator_id
UserKey(user_id)       == "user:" \o user_id
ListKey(page, page_size, search, location) ==
    "photos:page:" \o ToString(page) \o ":size:" \o ToString(page_size)
        \o ":search:" \o Fmt(search) \o ":location:" \o Fmt(location)

(***************************************************************************)
(* Documents and responses.                                                *)
(***************************************************************************)
\* $set on a document: the named fields are written, the others kept.
SetFields(doc, upd) ==
    [f \in DOMAIN doc \cup DOMAIN upd |-> IF f \in DOMAIN upd THEN upd[f] ELSE doc[f]]

\* round(total_score / total_ratings, 2), in hundredths (ties to even).
Round2(total_score, total_ratings) ==
    LET n == total_score * 100
        q == n \div total_ratings
        r == n % total_ratings
    IN  IF 2 * r > total_ratings \/ (2 * r = total_ratings /\ q % 2 = 1)
        THEN q + 1 ELSE q

\* PhotoResponse(**photo) raises a validation error unless title is a string.
ValidPhoto(doc) == ~IsNone(doc["title"])

\* BSON values: a user's _id is an ObjectId, a photo's creator_id is the
\* string str(current_user.id).  Values of different types are never equal.
Oid(u)  == [oid |-> u]
Text(s) == [str |-> s]

\* The users a query on _id selects: {"$lookup": {"from": "users", "localField":
\* "creator_id", "foreignField": "_id"}} and users.find_one({"_id": creator_id}).
UsersById(us, value) == {u \in DOMAIN us : Oid(u) = value}

\* "$addFields": {"username": "$creator.username"} after the $lookup and
\* $unwind, then "Unknown User" when the field is missing or null.
Username(doc) ==
    LET creator == UsersById(users, Text(doc["creator_id"]))
    IN  IF creator = {} THEN "Unknown User"
        ELSE users[CHOOSE u \in creator : TRUE].username

\* PhotoResponse(**photo): total_likes defaults to 0 when the document has none.
PhotoResponse(oid, doc) ==
    [ id             |-> Str(oid),
      username       |-> Username(doc),
      creator_id     |-> doc["creator_id"],
      title          |-> doc["title"],
      location       |-> doc["location"],
      average_rating |-> doc["average_rating"],
      total_ratings  |-> doc["total_ratings"],
      total_likes    |-> IF "total_likes" \in DOMAIN doc THEN doc["total_likes"] ELSE 0 ]

\* The match stage of get_photos: search against title and caption, location
\* against location, each a case-insensitive regex; a null field never matches.
FieldMatches(field, pat) == ~IsNone(field) /\ RegexI(field.v, pat)

\* `if search:` and `if location:` skip None and the empty string.
Given(o) == ~IsNone(o) /\ Len(o.v) > 0

Matches(doc, search, location) ==
    /\ Given(search) =>
          FieldMatches(doc["title"], search.v) \/ FieldMatches(doc["caption"], search.v)
    /\ Given(location) => FieldMatches(doc["location"], location.v)

\* {"$sort": {"upload_date": -1}} of photos inserted with increasing
\* upload_date: newest first is highest ObjectId first.
RECURSIVE SortDesc(_)
SortDesc(S) ==
    IF S = {} THEN << >>
    ELSE LET m == CHOOSE x \in S : \A y \in S : y <= x
         IN  <<m>> \o SortDesc(S \ {m})

\* {"$skip": skip}, {"$limit": limit}
SkipLimit(seq, skip, limit) ==
    SubSeq(seq, skip + 1, IF skip + limit < Len(seq) THEN skip + limit ELSE Len(seq))

\* A page count that rounds down.
TotalPagesFloor(total, page_size) ==
    IF total > 0 THEN total \div page_size ELSE 1

\* math.ceil(total / page_size) if total > 0 else 1
TotalPages(total, page_size) ==
    IF total > 0 THEN (total + page_size - 1) \div page_size ELSE 1

\* {"$sort": {"upload_date": -1}} of the photos S of ph: every order of S
\* with upload_date descending.  The sort names no second key, so photos
\* with one upload_date come in any order, one aggregation at a time.
Orders(ph, S) ==
    {o \in [1..Cardinality(S) -> S] :
        /\ \A x \in S : \E i \in 1..Cardinality(S) : o[i] = x
        /\ \A i, j \in 1..Cardinality(S) :
              i < j => ph[o[i]]["upload_date"] >= ph[o[j]]["upload_date"]}

\* The pages the aggregation of get_photos can return.
Listings(ph, page, page_size, search, location) ==
    {SkipLimit(o, (page - 1) * page_size, page_size) :
        o \in Orders(ph, {x \in DOMAIN ph : Matches(ph[x], search, location)})}

\* The aggregation of get_photos over the photos collection ph, photos
\* inserted with increasing upload_date.
ListingOids(ph, page, page_size, search, location) ==
    SkipLimit(SortDesc({o \in DOMAIN ph : Matches(ph[o], search, location)}),
              (page - 1) * page_size, page_size)

\* estimated_document_count() on the unfiltered first page, else count_documents(match).
CountPhotos(ph, page, search, location) ==
    IF page = 1 /\ ~Given(search) /\ ~Given(location)
    THEN Cardinality(DOMAIN ph)
    ELSE Cardinality({o \in DOMAIN ph : Matches(ph[o], search, location)})

\* The aggregation of get_creator_photos.
CreatorOids(ph, creator_id) ==
    SortDesc({o \in DOMAIN ph : ph[o]["creator_id"] = creator_id})

Responses(ph, oids) == [i \in 1..Len(oids) |-> PhotoResponse(oids[i], ph[oids[i]])]

AllValid(ph, oids) == \A i \in 1..Len(oids) : ValidPhoto(ph[oids[i]])

\* User(**doc): the authenticated user as the handlers see it.
UserModel(u, doc) ==
    [id |-> Str(u), email |-> doc.email, username |-> doc.username, role |-> doc.role,
     profile_picture_url |-> doc.profile_picture_url]

(***************************************************************************)
(* Fresh identifiers: the store and the media host never reissue an id     *)
(* that a document or a running handler still refers to.                   *)
(***************************************************************************)
Smallest(S) == CHOOSE x \in S : \A y \in S : x <= y
LocalIds(field) == {loc[t][field] : t \in {x \in Tasks : field \in DOMAIN loc[x]}}
FreshId(used) == Smallest((1..(Cardinality(used) + 1)) \ used)

FreshMedia   == FreshId(media \cup {photos[o]["cloudinary_public_id"] : o \in DOMAIN photos}
                              \cup LocalIds("public_id"))
FreshRating  == FreshId({r._id : r \in ratings} \cup LocalIds("rating_id"))
FreshLike    == FreshId({l._id : l \in likes} \cup LocalIds("like_id"))
FreshComment == FreshId({c._id : c \in comments})

\* utils/security.py: the bcrypt hash of a password, and its verification.
\* A hash is not the password; it verifies exactly the password it was made of.
get_password_hash(password) == [bcrypt |-> password]
verify_password(plain_password, hashed_password) ==
    hashed_password = get_password_hash(plain_password)

(***************************************************************************)
(* Tasks: one request each, from the route's dependencies to its response. *)
(***************************************************************************)
NoLocals   == << >>

WriteRoutes == {"create_photo", "update_photo", "delete_photo", "rate_photo",
                "toggle_like", "add_comment", "upgrade_to_creator"}

\* The role each route's dependency demands (get_current_creator,
\* get_current_consumer, or get_current_user for any role).
RoleNeeded(route) ==
    CASE route \in {"create_photo", "update_photo", "delete_photo", "get_my_photos"}
             -> "creator"
      [] route = "rate_photo" -> "consumer"
      [] OTHER -> "any"

Idle(t) == pc[t] = "idle"

\* Requests in flight beside task t.
Others(t) == {x \in Tasks \ {t} : pc[x] # "idle"}

\* Whether the step being taken writes to the store, the media host or the cache.
Changed == store' # store \/ cache' # cache

\* The handler of task t moves to its next await.  Its locals carry `mutated`:
\* whether any step of the handler so far has written anything, and `dark`:
\* whether the cache store was away at every step of the handler so far.
Goto(t, next, locals) ==
    /\ pc' = [pc EXCEPT ![t] = next]
    /\ loc' = [loc EXCEPT ![t] = SetFields(locals, [mutated |-> loc[t].mutated \/ Changed,
                                                    dark |-> loc[t].dark /\ ~cacheUp])]
    /\ returned' = NoResponse
    /\ UNCHANGED <<req, env>>

\* The photo document a request names, as stored when the request arrives.
Target(r) ==
    IF "photo_id" \in DOMAIN r /\ WellFormed(r.photo_id)
                               /\ ObjectId(r.photo_id) \in DOMAIN photos
    THEN Some(photos[ObjectId(r.photo_id)]) ELSE None

\* The ids of the Like and Rating records the acting user of request r has
\* on the photo it names when the request arrives.
Mine(r) ==
    IF "photo_id" \in DOMAIN r /\ "user" \in DOMAIN r
    THEN [ratings |-> {g._id : g \in {x \in ratings :
                          x.photo_id = r.photo_id /\ x.user_id = Str(r.user)}},
          likes   |-> {l._id : l \in {x \in likes :
                          x.photo_id = r.photo_id /\ x.user_id = Str(r.user)}}]
    ELSE [ratings |-> {}, likes |-> {}]

\* What a request remembers of the response delivered just before it arrived,
\* when that was a successful write of one of the routes in `watch`: the
\* history the properties speak about.  A like toggle is remembered together
\* with the toggle remembered before it.
Succeeded(resp) == resp # NoResponse /\ resp.status \in {200, 201, 204}

Brief(resp) ==
    [route |-> resp.route,
     photo_id |-> IF resp.route = "create_photo" THEN resp.body.id ELSE resp.req.photo_id,
     user |-> resp.req.user,
     body |-> IF resp.route = "toggle_like" THEN resp.body ELSE "ok",
     target |-> IF resp.route = "toggle_like" THEN resp.target ELSE None,
     had |-> resp.had]

Previous(resp) ==
    IF ~(Succeeded(resp) /\ resp.route \in watching) THEN NoResponse
    ELSE [prev |-> Brief(resp),
          prev2 |-> IF resp.after # NoResponse THEN resp.after.prev ELSE NoResponse]

PhotoWrites == {"create_photo", "update_photo", "delete_photo"}

\* The handler of task t responds (status 2xx, or the HTTPException raised).
Return(t, status, body) ==
    /\ pc' = [pc EXCEPT ![t] = "idle"]
    /\ req' = [req EXCEPT ![t] = NoRequest]
    /\ loc' = [loc EXCEPT ![t] = NoLocals]
    /\ returned' = [route |-> req[t].route, req |-> req[t], status |-> status,
                    body |-> body, mutated |-> loc[t].mutated \/ Changed,
                    after |-> loc[t].after, overlap |-> loc[t].overlap,
                    target |-> loc[t].target, had |-> loc[t].had,
                    dark |-> loc[t].dark /\ ~cacheUp]
    /\ UNCHANGED env

\* The locals of every task when request r starts on task t: the new handler
\* has written nothing yet, and each of two handlers in flight together is
\* marked as overlapped when the other one is a write.  What a handler
\* remembers of the state it started in is kept only while it is not
\* overlapped.
Overlapped(t) == \E y \in Others(t) : req[y].route \in WriteRoutes

Alone == [target |-> None, had |-> [ratings |-> {}, likes |-> {}],
          after |-> NoResponse, overlap |-> TRUE]

Enter(t, r) ==
    [x \in Tasks |->
        IF x = t
        THEN IF Overlapped(t) THEN SetFields(Alone, [mutated |-> FALSE, dark |-> ~cacheUp])
             ELSE [mutated |-> FALSE, after |-> Previous(returned), overlap |-> FALSE,
                   target |-> Target(r), had |-> Mine(r), dark |-> ~cacheUp]
        ELSE IF pc[x] # "idle" /\ r.route \in WriteRoutes
             THEN SetFields(loc[x], Alone)
             ELSE loc[x]]

\* get_current_user for the bearer of user u's token: the identity cache
\* first, the users collection on a miss (and the cache is filled).
AuthUser(u) ==
    IF CacheHit(cache, UserKey(Str(u))) THEN cache[UserKey(Str(u))]
    ELSE UserModel(u, users[u])

AuthCache(u) ==
    IF CacheHit(cache, UserKey(Str(u))) THEN cache
    ELSE CacheSet(cache, UserKey(Str(u)), UserModel(u, users[u]))

\* The document store does not answer: no handle (database.db is None), or
\* the server is unreachable and the driver raises.
StoreAway == db # "up"

\* The response of a route that answers in the step its request arrives in
\* (a dependency raises, or the route awaits nothing of its own).
Responds(t, r, status, body) ==
    [route |-> r.route, req |-> r, status |-> status,
     body |-> body, mutated |-> FALSE,
     after |-> NoResponse, overlap |-> Overlapped(t),
     target |-> Target(r), had |-> Mine(r),
     dark |-> ~cacheUp]

\* A request arrives at an idle task: the route's dependencies run, and the
\* handler starts at `first` unless get_current_user raises (get_user_by_id:
\* 503 from _check_db, 404 when find_one raises) or the role check raises 403.
Begin(t, r, first) ==
    /\ Idle(t)
    /\ r.user \in DOMAIN users
    /\ IF ~CacheHit(cache, UserKey(Str(r.user))) /\ StoreAway
       THEN /\ returned' = IF db = "none"
                           THEN Responds(t, r, 503, "Database service unavailable")
                           ELSE Responds(t, r, 404, "User not found")
            /\ UNCHANGED <<pc, req, loc, cache>>
       ELSE /\ cache' = AuthCache(r.user)
            /\ IF RoleNeeded(r.route) # "any" /\ AuthUser(r.user).role # RoleNeeded(r.route)
               THEN /\ returned' = Responds(t, r, 403, "role")
                    /\ UNCHANGED <<pc, req, loc>>
               ELSE /\ pc' = [pc EXCEPT ![t] = first]
                    /\ req' = [req EXCEPT ![t] = r]
                    /\ loc' = Enter(t, r)
                    /\ returned' = NoResponse
    /\ UNCHANGED <<store, env>>

\* A service method is called on an idle task by an authenticated user.
Call(t, r, first) ==
    /\ Idle(t)
    /\ pc' = [pc EXCEPT ![t] = first]
    /\ req' = [req EXCEPT ![t] = r]
    /\ loc' = Enter(t, r)
    /\ returned' = NoResponse
    /\ UNCHANGED <<store, cache, env>>

At(t, label) == pc[t] = label

\* The photo a well-formed, existing photo_id names in ph; None otherwise
\* (find_one returns None, and ObjectId() raising is answered the same way).
FindPhoto(ph, photo_id) ==
    IF WellFormed(photo_id) /\ ObjectId(photo_id) \in DOMAIN ph
    THEN Some(ObjectId(photo_id)) ELSE None

(***************************************************************************)
(* PhotoService.create_photo                                               *)
(***************************************************************************)
Creating == {t \in Tasks : req[t].route = "create_photo"}

CallCreatePhoto(t) ==
    \E u \in UserOids, d \in CreateInputs :
        /\ photoSeq + Cardinality(Creating) < MaxPhotos
        /\ Call(t, [route |-> "create_photo", user |-> u, data |-> d], "cp_upload")

\* An upload whose failure is not raised: the caller goes on with the
\* public id 0, which the media host never issued.
upload_image_quiet(ok, id) == Some([public_id |-> IF ok THEN id ELSE 0])

\* CloudinaryService.upload_image: the upload result (public id, URLs) when
\* the media host accepts the image; any exception becomes an HTTPException
\* 500 (None here).
upload_image(ok, id) == IF ok THEN Some([public_id |-> id]) ELSE None

\* upload_result = await self.cloudinary_service.upload_image(file)
CreateUpload(t) ==
    \E ok \in BOOLEAN :
        LET upload_result == upload_image(ok, FreshMedia) IN
        /\ At(t, "cp_upload")
        /\ UNCHANGED <<users, photos, photoSeq, ratings, likes, comments, cache>>
        /\ media' = IF ok THEN media \cup {FreshMedia} ELSE media
        /\ IF IsNone(upload_result) THEN Return(t, 500, "Failed to upload image")
           ELSE Goto(t, "cp_insert",
                     SetFields(loc[t], [public_id |-> upload_result.v.public_id]))

\* The document create_photo inserts: no total_likes field.
NewPhoto(creator_id, d, public_id, upload_date) ==
    [ creator_id |-> creator_id, title |-> Some(d.title), caption |-> None,
      location |-> d.location, cloudinary_public_id |-> public_id,
      average_rating |-> 0, total_ratings |-> 0, upload_date |-> upload_date ]

\* photo_dict["upload_date"] = datetime.utcnow(): later than every stored
\* upload_date; in a "burst" of uploads the clock may also read the
\* millisecond of the latest stored upload again.
UtcNow ==
    IF workload = "burst" /\ photos # << >>
    THEN LET latest == CHOOSE d \in {photos[o]["upload_date"] : o \in DOMAIN photos} :
                           \A o \in DOMAIN photos : photos[o]["upload_date"] <= d
         IN  {latest, latest + 1}
    ELSE {photoSeq + 1}

\* result = await self.db.photos.insert_one(photo_dict)
CreateInsert(t) ==
    \E now \in UtcNow :
        LET oid == photoSeq + 1
            doc == NewPhoto(Str(req[t].user), req[t].data, loc[t].public_id, now)
        IN  /\ At(t, "cp_insert")
            /\ UNCHANGED <<users, ratings, likes, comments, media, cache>>
            /\ IF StoreAway
               THEN /\ UNCHANGED <<photos, photoSeq>>
                    /\ Return(t, 500, "Internal Server Error")
               ELSE /\ photos' = (oid :> doc) @@ photos
                    /\ photoSeq' = oid
                    /\ Goto(t, "cp_user",
                            SetFields(loc[t], [oid |-> oid, photo_dict |-> doc]))

\* user = await self.db.users.find_one({"_id": creator_id})
CreateFindUser(t) ==
    /\ At(t, "cp_user")
    /\ UNCHANGED <<store, cache>>
    /\ Goto(t, "cp_inv_list", loc[t])

\* await cache_service.delete_pattern(f"photos:*")
CreateInvalidateListings(t) ==
    /\ At(t, "cp_inv_list")
    /\ cache' = CacheDeletePattern(cache, "photos:*")
    /\ UNCHANGED store
    /\ Goto(t, "cp_inv_creator", loc[t])

\* await cache_service.delete_pattern(f"creator_photos:{creator_id}"); return
CreateInvalidateCreator(t) ==
    /\ At(t, "cp_inv_creator")
    /\ cache' = CacheDeletePattern(cache, CreatorKey(Str(req[t].user)))
    /\ UNCHANGED store
    /\ Return(t, 201, PhotoResponse(loc[t].oid, loc[t].photo_dict))

(***************************************************************************)
(* PhotoService.get_photo_by_id                                            *)
(***************************************************************************)
CallGetPhoto(t) ==
    \E p \in PhotoIdInputs :
        Call(t, [route |-> "get_photo", photo_id |-> p], "gp_cache")

\* cached_photo = await cache_service.get(cache_key)
GetPhotoCache(t) ==
    /\ At(t, "gp_cache")
    /\ UNCHANGED <<store, cache>>
    /\ IF CacheHit(cache, PhotoKey(req[t].photo_id))
       THEN Return(t, 200, cache[PhotoKey(req[t].photo_id)])
       ELSE Goto(t, "gp_db", loc[t])

\* photos = await cursor.to_list(length=1), then PhotoResponse(**photo)
GetPhotoAggregate(t) ==
    LET found == FindPhoto(photos, req[t].photo_id) IN
    /\ At(t, "gp_db")
    /\ UNCHANGED <<store, cache>>
    /\ IF StoreAway \/ IsNone(found) THEN Return(t, 404, "Photo not found")
       ELSE IF ~ValidPhoto(photos[found.v]) THEN Return(t, 500, "validation")
       ELSE Goto(t, "gp_set",
                 SetFields(loc[t], [resp |-> PhotoResponse(found.v, photos[found.v])]))

\* await cache_service.set(cache_key, photo_response.dict()); return
GetPhotoFill(t) ==
    /\ At(t, "gp_set")
    /\ cache' = CacheSet(cache, PhotoKey(req[t].photo_id), loc[t].resp)
    /\ UNCHANGED store
    /\ Return(t, 200, loc[t].resp)

(***************************************************************************)
(* PhotoService.get_photos                                                 *)
(***************************************************************************)
CallGetPhotos(t) ==
    \E q \in ListInputs :
        Call(t, [route |-> "get_photos", page |-> q.page, page_size |-> q.page_size,
                 search |-> q.search, location |-> q.location],
             "gl_cache")

\* GET /api/photos?page=..&page_size=.. (page >= 1, 1 <= page_size <= 100)
MaxPage     == 3
MaxPageSize == 2
PageInputs ==
    {[page |-> p, page_size |-> z, search |-> None, location |-> None] :
        p \in 1..MaxPage, z \in 1..MaxPageSize}

\* GET /api/photos?search=..&location=.. (both Optional[str], any text)
SearchInputs ==
    {[page |-> 1, page_size |-> z, search |-> q[1], location |-> q[2]] :
        z \in 1..MaxPageSize,
        q \in {<<None, None>>, <<Some("None"), None>>,
               <<Some("u:location:x"), None>>, <<Some("u"), Some("x:location:None")>>}}

CallGetSearch(t) ==
    \E q \in SearchInputs :
        Call(t, [route |-> "get_photos", page |-> q.page, page_size |-> q.page_size,
                 search |-> q.search, location |-> q.location],
             "gl_cache")

CallGetPage(t) ==
    \E q \in PageInputs :
        Call(t, [route |-> "get_photos", page |-> q.page, page_size |-> q.page_size,
                 search |-> q.search, location |-> q.location],
             "gl_cache")

ReqListKey(r) == ListKey(r.page, r.page_size, r.search, r.location)

\* cached_result = await cache_service.get(cache_key)
GetPhotosCache(t) ==
    /\ At(t, "gl_cache")
    /\ UNCHANGED <<store, cache>>
    /\ IF CacheHit(cache, ReqListKey(req[t]))
       THEN Return(t, 200, cache[ReqListKey(req[t])])
       ELSE Goto(t, "gl_count", loc[t])

\* total = await ...estimated_document_count() / count_documents(match_query)
GetPhotosCount(t) ==
    /\ At(t, "gl_count")
    /\ UNCHANGED <<store, cache>>
    /\ IF StoreAway THEN Return(t, 500, "Internal Server Error")
       ELSE Goto(t, "gl_agg",
                 SetFields(loc[t], [total |-> CountPhotos(photos, req[t].page,
                                                          req[t].search, req[t].location)]))

\* photos = await cursor.to_list(length=page_size), then the PhotoListResponse
GetPhotosAggregate(t) ==
    LET r == req[t] IN
    /\ At(t, "gl_agg")
    /\ UNCHANGED <<store, cache>>
    /\ \E oids \in Listings(photos, r.page, r.page_size, r.search, r.location) :
           IF ~AllValid(photos, oids) THEN Return(t, 500, "validation")
           ELSE Goto(t, "gl_set",
                     SetFields(loc[t],
                         [resp |-> [photos |-> Responses(photos, oids),
                                    total |-> loc[t].total,
                                    page |-> r.page, page_size |-> r.page_size,
                                    total_pages |-> TotalPages(loc[t].total, r.page_size)]]))

\* await cache_service.set(cache_key, result.dict()); return
GetPhotosFill(t) ==
    /\ At(t, "gl_set")
    /\ cache' = CacheSet(cache, ReqListKey(req[t]), loc[t].resp)
    /\ UNCHANGED store
    /\ Return(t, 200, loc[t].resp)

(***************************************************************************)
(* PhotoService.get_creator_photos                                         *)
(***************************************************************************)
CallGetCreatorPhotos(t) ==
    \E u \in UserOids :
        Call(t, [route |-> "get_my_photos", user |-> u], "gc_cache")

\* GET /api/creator/photos, behind get_current_creator.
BeginGetCreatorPhotos(t) ==
    \E u \in UserOids :
        Begin(t, [route |-> "get_my_photos", user |-> u], "gc_cache")

\* cached_photos = await cache_service.get(cache_key)
GetCreatorPhotosCache(t) ==
    /\ At(t, "gc_cache")
    /\ UNCHANGED <<store, cache>>
    /\ IF CacheHit(cache, CreatorKey(Str(req[t].user)))
       THEN Return(t, 200, cache[CreatorKey(Str(req[t].user))])
       ELSE Goto(t, "gc_agg", loc[t])

\* photos = await cursor.to_list(length=None), then the responses
GetCreatorPhotosAggregate(t) ==
    LET oids == CreatorOids(photos, Str(req[t].user)) IN
    /\ At(t, "gc_agg")
    /\ UNCHANGED <<store, cache>>
    /\ IF StoreAway THEN Return(t, 500, "Internal Server Error")
       ELSE IF ~AllValid(photos, oids) THEN Return(t, 500, "validation")
       ELSE Goto(t, "gc_set", SetFields(loc[t], [resp |-> [list |-> Responses(photos, oids)]]))

\* await cache_service.set(cache_key, [...]); return
GetCreatorPhotosFill(t) ==
    /\ At(t, "gc_set")
    /\ cache' = CacheSet(cache, CreatorKey(Str(req[t].user)), loc[t].resp)
    /\ UNCHANGED store
    /\ Return(t, 200, loc[t].resp)

(***************************************************************************)
(* PhotoService.update_photo                                               *)
(***************************************************************************)
\* An ownership check that lets every caller through.
OwnsAny(doc, creator_id) == TRUE

\* if photo["creator_id"] != creator_id: raise 403
Owns(doc, creator_id) == doc["creator_id"] = creator_id

CallUpdatePhoto(t) ==
    \E u \in UserOids, p \in PhotoIdInputs, d \in UpdateInputs :
        Call(t, [route |-> "update_photo", photo_id |-> p, user |-> u, data |-> d],
             "up_find")

\* PUT /api/creator/photos/{photo_id} with a body that may carry "title":
\* null: PhotoUpdate.title is Optional[str], so null is accepted, and the
\* field counts as set.
UpdateNullInputs == UpdateInputs \cup { [title |-> None] }

CallUpdateNull(t) ==
    \E u \in UserOids, p \in PhotoIdInputs, d \in UpdateNullInputs :
        Call(t, [route |-> "update_photo", photo_id |-> p, user |-> u, data |-> d],
             "up_find")

\* photo = await self.db.photos.find_one(...), existence and ownership checks
UpdateFind(t) ==
    LET found == FindPhoto(photos, req[t].photo_id) IN
    /\ At(t, "up_find")
    /\ UNCHANGED <<store, cache>>
    /\ IF StoreAway \/ IsNone(found) THEN Return(t, 404, "Photo not found")
       ELSE IF ~Owns(photos[found.v], Str(req[t].user))
       THEN Return(t, 403, "Not authorized to update this photo")
       ELSE Goto(t, IF DOMAIN req[t].data # {} THEN "up_set" ELSE "up_agg", loc[t])

\* await self.db.photos.update_one({"_id": ...}, {"$set": update_data})
UpdateSet(t) ==
    LET oid == ObjectId(req[t].photo_id) IN
    /\ At(t, "up_set")
    /\ photos' = IF oid \in DOMAIN photos
                 THEN [photos EXCEPT ![oid] = SetFields(@, req[t].data)]
                 ELSE photos
    /\ UNCHANGED <<users, photoSeq, ratings, likes, comments, media, cache>>
    /\ Goto(t, "up_agg", loc[t])

\* photos = await cursor.to_list(length=1): the photo read back
UpdateAggregate(t) ==
    LET found == FindPhoto(photos, req[t].photo_id) IN
    /\ At(t, "up_agg")
    /\ UNCHANGED <<store, cache>>
    /\ IF IsNone(found) THEN Return(t, 404, "Photo not found after update")
       ELSE Goto(t, "up_inv_point",
                 SetFields(loc[t], [oid |-> found.v, updated |-> photos[found.v]]))

\* await cache_service.delete(f"photo:{photo_id}")
UpdateInvalidatePoint(t) ==
    /\ At(t, "up_inv_point")
    /\ cache' = CacheDelete(cache, PhotoKey(req[t].photo_id))
    /\ UNCHANGED store
    /\ Goto(t, "up_inv_list", loc[t])

\* await cache_service.delete_pattern(f"photos:*")
UpdateInvalidateListings(t) ==
    /\ At(t, "up_inv_list")
    /\ cache' = CacheDeletePattern(cache, "photos:*")
    /\ UNCHANGED store
    /\ Goto(t, "up_inv_creator", loc[t])

\* await cache_service.delete_pattern(f"creator_photos:{creator_id}"); return
UpdateInvalidateCreator(t) ==
    /\ At(t, "up_inv_creator")
    /\ cache' = CacheDeletePattern(cache, CreatorKey(Str(req[t].user)))
    /\ UNCHANGED store
    /\ IF ValidPhoto(loc[t].updated)
       THEN Return(t, 200, PhotoResponse(loc[t].oid, loc[t].updated))
       ELSE Return(t, 500, "validation")

(***************************************************************************)
(* PhotoService.delete_photo                                               *)
(***************************************************************************)
CallDeletePhoto(t) ==
    \E u \in UserOids, p \in PhotoIdInputs :
        Call(t, [route |-> "delete_photo", photo_id |-> p, user |-> u], "dp_find")

\* photo = await self.db.photos.find_one(...), existence and ownership checks
DeleteFind(t) ==
    LET found == FindPhoto(photos, req[t].photo_id) IN
    /\ At(t, "dp_find")
    /\ UNCHANGED <<store, cache>>
    /\ IF StoreAway \/ IsNone(found) THEN Return(t, 404, "Photo not found")
       ELSE IF ~Owns(photos[found.v], Str(req[t].user))
       THEN Return(t, 403, "Not authorized to delete this photo")
       ELSE Goto(t, "dp_media",
                 SetFields(loc[t], [public_id |-> photos[found.v]["cloudinary_public_id"]]))

\* A delete_image that invalidates the point entry on its way.
DeleteMediaInvalidating(t) ==
    /\ At(t, "dp_media")
    /\ media' = media \ {loc[t].public_id}
    /\ cache' = CacheDelete(cache, PhotoKey(req[t].photo_id))
    /\ UNCHANGED <<users, photos, photoSeq, ratings, likes, comments>>
    /\ Goto(t, "dp_photo", loc[t])

\* await self.cloudinary_service.delete_image(photo["cloudinary_public_id"])
DeleteMedia(t) ==
    /\ At(t, "dp_media")
    /\ media' = media \ {loc[t].public_id}
    /\ UNCHANGED <<users, photos, photoSeq, ratings, likes, comments, cache>>
    /\ Goto(t, "dp_photo", loc[t])

\* await self.db.photos.delete_one({"_id": ObjectId(photo_id)})
DeleteDocument(t) ==
    /\ At(t, "dp_photo")
    /\ photos' = [o \in DOMAIN photos \ {ObjectId(req[t].photo_id)} |-> photos[o]]
    /\ UNCHANGED <<users, photoSeq, ratings, likes, comments, media, cache>>
    /\ Goto(t, "dp_comments", loc[t])

\* await self.db.comments.delete_many({"photo_id": photo_id})
DeleteComments(t) ==
    /\ At(t, "dp_comments")
    /\ comments' = {c \in comments : c.photo_id # req[t].photo_id}
    /\ UNCHANGED <<users, photos, photoSeq, ratings, likes, media, cache>>
    /\ Goto(t, "dp_ratings", loc[t])

\* await self.db.ratings.delete_many({"photo_id": photo_id})
DeleteRatings(t) ==
    /\ At(t, "dp_ratings")
    /\ ratings' = {r \in ratings : r.photo_id # req[t].photo_id}
    /\ UNCHANGED <<users, photos, photoSeq, likes, comments, media, cache>>
    /\ Goto(t, "dp_inv_point", loc[t])

\* await cache_service.delete(f"photo:{photo_id}")
DeleteInvalidatePoint(t) ==
    /\ At(t, "dp_inv_point")
    /\ cache' = CacheDelete(cache, PhotoKey(req[t].photo_id))
    /\ UNCHANGED store
    /\ Goto(t, "dp_inv_list", loc[t])

\* await cache_service.delete_pattern(f"photos:*")
DeleteInvalidateListings(t) ==
    /\ At(t, "dp_inv_list")
    /\ cache' = CacheDeletePattern(cache, "photos:*")
    /\ UNCHANGED store
    /\ Goto(t, "dp_inv_creator", loc[t])

\* await cache_service.delete_pattern(f"creator_photos:{creator_id}")
DeleteInvalidateCreator(t) ==
    /\ At(t, "dp_inv_creator")
    /\ cache' = CacheDeletePattern(cache, CreatorKey(Str(req[t].user)))
    /\ UNCHANGED store
    /\ Goto(t, "dp_inv_ratings", loc[t])

\* await cache_service.delete_pattern(f"ratings:photo:{photo_id}"); return True
DeleteInvalidateRatings(t) ==
    /\ At(t, "dp_inv_ratings")
    /\ cache' = CacheDeletePattern(cache, "ratings:photo:" \o req[t].photo_id)
    /\ UNCHANGED store
    /\ Return(t, 204, TRUE)

(***************************************************************************)
(* RatingService.create_or_update_rating                                   *)
(***************************************************************************)
CallRating(t) ==
    \E u \in UserOids, p \in PhotoIdInputs, v \in RatingInputs :
        Call(t, [route |-> "rate_photo", photo_id |-> p, user |-> u, rating |-> v],
             "cr_find")

\* POST /photos/{photo_id}/rating: rate_photo, behind get_current_consumer.
BeginRating(t) ==
    \E u \in UserOids, p \in PhotoIdInputs, v \in RatingInputs :
        Begin(t, [route |-> "rate_photo", photo_id |-> p, user |-> u, rating |-> v],
              "cr_find")

\* A ratings collection without the unique index.
NoIndex(rs, doc) == TRUE

RatingsOf(rs, photo_id) == {r \in rs : r.photo_id = photo_id}
RatingsOfPair(rs, photo_id, user_id) ==
    {r \in rs : r.photo_id = photo_id /\ r.user_id = user_id}

\* photo = await self.db.photos.find_one(...), existence check
RatingFind(t) ==
    /\ At(t, "cr_find")
    /\ UNCHANGED <<store, cache>>
    /\ IF StoreAway \/ IsNone(FindPhoto(photos, req[t].photo_id))
       THEN Return(t, 404, "Photo not found")
       ELSE Goto(t, "cr_existing", loc[t])

\* existing_rating = await self.db.ratings.find_one({photo_id, user_id})
RatingExisting(t) ==
    LET mine == RatingsOfPair(ratings, req[t].photo_id, Str(req[t].user)) IN
    /\ At(t, "cr_existing")
    /\ UNCHANGED <<store, cache>>
    /\ IF mine = {} THEN Goto(t, "cr_insert", loc[t])
       ELSE \E r \in mine : Goto(t, "cr_update", SetFields(loc[t], [rating_id |-> r._id]))

\* await self.db.ratings.update_one({"_id": existing_rating["_id"]}, {"$set": ...})
RatingUpdate(t) ==
    /\ At(t, "cr_update")
    /\ ratings' = {IF r._id = loc[t].rating_id THEN [r EXCEPT !.rating = req[t].rating] ELSE r
                   : r \in ratings}
    /\ UNCHANGED <<users, photos, photoSeq, likes, comments, media, cache>>
    /\ Goto(t, "cr_ratings", loc[t])

\* The unique index on ratings (photo_id, user_id) (create_indexes): an insert
\* of a second document for the pair raises DuplicateKeyError.
RatingsUniqueIndex(rs, doc) == RatingsOfPair(rs, doc.photo_id, doc.user_id) = {}

\* result = await self.db.ratings.insert_one(rating_dict)
RatingInsert(t) ==
    LET doc == [_id |-> FreshRating, photo_id |-> req[t].photo_id,
                user_id |-> Str(req[t].user), rating |-> req[t].rating]
    IN  /\ At(t, "cr_insert")
        /\ UNCHANGED <<users, photos, photoSeq, likes, comments, media, cache>>
        /\ IF RatingsUniqueIndex(ratings, doc)
           THEN /\ ratings' = ratings \cup {doc}
                /\ Goto(t, "cr_ratings", SetFields(loc[t], [rating_id |-> doc._id]))
           ELSE /\ ratings' = ratings
                /\ Return(t, 500, "DuplicateKeyError")

RECURSIVE SumRatings(_)
SumRatings(rs) ==
    IF rs = {} THEN 0
    ELSE LET r == CHOOSE x \in rs : TRUE IN r.rating + SumRatings(rs \ {r})

\* An average that is never divided by the number of ratings.
TotalScore(rs) == 100 * SumRatings(rs)

\* _update_photo_rating: average_rating of a list of rating documents
AverageOf(rs) == IF rs = {} THEN 0 ELSE Round2(SumRatings(rs), Cardinality(rs))

\* _update_photo_rating: ratings = await cursor.to_list(length=None)
RatingRecount(t) ==
    LET rs == RatingsOf(ratings, req[t].photo_id) IN
    /\ At(t, "cr_ratings")
    /\ UNCHANGED <<store, cache>>
    /\ Goto(t, "cr_photo",
            SetFields(loc[t], [total_ratings |-> Cardinality(rs),
                               average_rating |-> AverageOf(rs)]))

\* A $set of the average alone.
RatingSetAverage(doc, average_rating, total_ratings) ==
    SetFields(doc, [average_rating |-> average_rating])

\* {"$set": {"average_rating": average_rating, "total_ratings": total_ratings}}
RatingSet(doc, average_rating, total_ratings) ==
    SetFields(doc, [total_ratings |-> total_ratings, average_rating |-> average_rating])

\* _update_photo_rating: await self.db.photos.update_one(..., {"$set": {...}})
RatingAggregate(t) ==
    LET oid == ObjectId(req[t].photo_id) IN
    /\ At(t, "cr_photo")
    /\ photos' = IF oid \in DOMAIN photos
                 THEN [photos EXCEPT ![oid] =
                          RatingSet(@, loc[t].average_rating, loc[t].total_ratings)]
                 ELSE photos
    /\ UNCHANGED <<users, photoSeq, ratings, likes, comments, media, cache>>
    /\ Goto(t, "cr_get", loc[t])

\* rating = await self.db.ratings.find_one({"_id": rating_id}); return
RatingReturn(t) ==
    LET got == {r \in ratings : r._id = loc[t].rating_id} IN
    /\ At(t, "cr_get")
    /\ UNCHANGED <<store, cache>>
    /\ IF got = {} THEN Return(t, 500, "TypeError")
       ELSE \E r \in got : Return(t, 201, r)

(***************************************************************************)
(* LikeService.toggle_like                                                 *)
(***************************************************************************)
CallToggleLike(t) ==
    \E u \in UserOids, p \in PhotoIdInputs :
        Call(t, [route |-> "toggle_like", photo_id |-> p, user |-> u], "tl_find")

\* A count query and a lookup that find no Like record.
LikesOfNone(ls, photo_id) == {}
LikesOfNobody(ls, photo_id, user_id) == {}

LikesOf(ls, photo_id) == {l \in ls : l.photo_id = photo_id}
LikesOfPair(ls, photo_id, user_id) ==
    {l \in ls : l.photo_id = photo_id /\ l.user_id = user_id}

\* photo = await self.db.photos.find_one(...), existence check
LikeFind(t) ==
    /\ At(t, "tl_find")
    /\ UNCHANGED <<store, cache>>
    /\ IF StoreAway \/ IsNone(FindPhoto(photos, req[t].photo_id))
       THEN Return(t, 404, "Photo not found")
       ELSE Goto(t, "tl_existing", loc[t])

\* existing_like = await self.db.likes.find_one({photo_id, user_id})
LikeExisting(t) ==
    LET mine == LikesOfPair(likes, req[t].photo_id, Str(req[t].user)) IN
    /\ At(t, "tl_existing")
    /\ UNCHANGED <<store, cache>>
    /\ IF mine = {} THEN Goto(t, "tl_insert", loc[t])
       ELSE \E l \in mine : Goto(t, "tl_delete", SetFields(loc[t], [like_id |-> l._id]))

\* await self.db.likes.delete_one({"_id": existing_like["_id"]})
LikeDelete(t) ==
    /\ At(t, "tl_delete")
    /\ likes' = {l \in likes : l._id # loc[t].like_id}
    /\ UNCHANGED <<users, photos, photoSeq, ratings, comments, media, cache>>
    /\ Goto(t, "tl_count", SetFields(loc[t], [liked |-> FALSE]))

\* The indexes on likes: create_indexes declares none, so every insert succeeds.
LikesUniqueIndex(ls, doc) == TRUE

\* result = await self.db.likes.insert_one(like_dict)
LikeInsert(t) ==
    LET doc == [_id |-> FreshLike, photo_id |-> req[t].photo_id,
                user_id |-> Str(req[t].user)]
    IN  /\ At(t, "tl_insert")
        /\ UNCHANGED <<users, photos, photoSeq, ratings, comments, media, cache>>
        /\ IF LikesUniqueIndex(likes, doc)
           THEN /\ likes' = likes \cup {doc}
                /\ Goto(t, "tl_count", SetFields(loc[t], [like_id |-> doc._id, liked |-> TRUE]))
           ELSE /\ likes' = likes
                /\ Return(t, 500, "DuplicateKeyError")

\* _update_photo_likes: total_likes = await self.db.likes.count_documents(...)
LikeRecount(t) ==
    /\ At(t, "tl_count")
    /\ UNCHANGED <<store, cache>>
    /\ Goto(t, "tl_photo",
            SetFields(loc[t], [total_likes |-> Cardinality(LikesOf(likes, req[t].photo_id))]))

\* _update_photo_likes: await self.db.photos.update_one(..., {"$set": {"total_likes": n}})
LikeAggregate(t) ==
    LET oid == ObjectId(req[t].photo_id) IN
    /\ At(t, "tl_photo")
    /\ photos' = IF oid \in DOMAIN photos
                 THEN [photos EXCEPT ![oid] =
                          SetFields(@, [total_likes |-> loc[t].total_likes])]
                 ELSE photos
    /\ UNCHANGED <<users, photoSeq, ratings, likes, comments, media, cache>>
    /\ Goto(t, "tl_inv_stats", loc[t])

\* await cache_service.delete(f"likes:photo:{photo_id}")
LikeInvalidateStats(t) ==
    /\ At(t, "tl_inv_stats")
    /\ cache' = CacheDelete(cache, "likes:photo:" \o req[t].photo_id)
    /\ UNCHANGED store
    /\ Goto(t, "tl_inv_point", loc[t])

\* await cache_service.delete(f"photo:{photo_id}")
LikeInvalidatePoint(t) ==
    /\ At(t, "tl_inv_point")
    /\ cache' = CacheDelete(cache, PhotoKey(req[t].photo_id))
    /\ UNCHANGED store
    /\ Goto(t, "tl_inv_list", loc[t])

\* await cache_service.delete_pattern(f"photos:*"); return LikeResponse(...)
LikeInvalidateListings(t) ==
    /\ At(t, "tl_inv_list")
    /\ cache' = CacheDeletePattern(cache, "photos:*")
    /\ UNCHANGED store
    /\ Return(t, 200, [id |-> loc[t].like_id, liked |-> loc[t].liked])

(***************************************************************************)
(* CommentService.create_comment                                           *)
(***************************************************************************)
CallComment(t) ==
    \E u \in UserOids, p \in PhotoIdInputs :
        /\ Cardinality(comments) + Cardinality({x \in Tasks : req[x].route = "add_comment"})
              < MaxComments
        /\ Call(t, [route |-> "add_comment", photo_id |-> p, user |-> u], "cc_find")

\* photo = await self.db.photos.find_one(...), existence check
CommentFind(t) ==
    /\ At(t, "cc_find")
    /\ UNCHANGED <<store, cache>>
    /\ IF StoreAway \/ IsNone(FindPhoto(photos, req[t].photo_id))
       THEN Return(t, 404, "Photo not found")
       ELSE Goto(t, "cc_insert", loc[t])

\* result = await self.db.comments.insert_one(comment_dict); return
CommentInsert(t) ==
    LET doc == [_id |-> FreshComment, photo_id |-> req[t].photo_id,
                user_id |-> Str(req[t].user)]
    IN  /\ At(t, "cc_insert")
        /\ comments' = comments \cup {doc}
        /\ UNCHANGED <<users, photos, photoSeq, ratings, likes, media, cache>>
        /\ Return(t, 201, doc)

(***************************************************************************)
(* AuthService.upgrade_to_creator                                          *)
(***************************************************************************)
BeginUpgrade(t) ==
    \E u \in UserOids :
        Begin(t, [route |-> "upgrade_to_creator", user |-> u], "ug_update")

\* A $set that also clears the profile picture.
UpgradeSetPicture(doc) ==
    SetFields(doc, [role |-> "creator", profile_picture_url |-> None,
                    updated_at |-> "upgrade"])

\* {"$set": {"role": "creator", "updated_at": datetime.utcnow()}}: updated_at
\* is the time of creation until an upgrade sets it to the time of the upgrade.
UpgradeSet(doc) == SetFields(doc, [role |-> "creator", updated_at |-> "upgrade"])

\* result = await self.db.users.update_one({"_id": ...}, {"$set": {...}})
UpgradeUpdate(t) ==
    LET u == req[t].user IN
    /\ At(t, "ug_update")
    /\ UNCHANGED <<photos, photoSeq, ratings, likes, comments, media, cache>>
    /\ IF StoreAway
       THEN /\ users' = users
            /\ IF db = "none" THEN Return(t, 503, "Database service unavailable")
               ELSE Return(t, 500, "Failed to upgrade user role")
       ELSE IF u \in DOMAIN users
       THEN /\ users' = [users EXCEPT ![u] = UpgradeSet(@)]
            /\ Goto(t, "ug_get", loc[t])
       ELSE /\ users' = users
            /\ Return(t, 404, "User not found")

\* return await self.get_user_by_id(user_id)
UpgradeReturn(t) ==
    LET u == req[t].user IN
    /\ At(t, "ug_get")
    /\ UNCHANGED <<store, cache>>
    /\ IF u \in DOMAIN users THEN Return(t, 200, UserModel(u, users[u]))
       ELSE Return(t, 404, "User not found")

(***************************************************************************)
(* POST /api/auth/register-consumer: AuthService.register_consumer         *)
(***************************************************************************)
Emails    == {"a@x.io", "b@x.io"}
Usernames == {"ann", "bob"}
RegisterInputs ==
    {[username |-> n, email |-> e, password |-> "secret-1"] : e \in Emails, n \in Usernames}

Registering == {t \in Tasks : req[t].route = "register_consumer"}

CallRegister(t) ==
    \E d \in RegisterInputs :
        /\ Cardinality(DOMAIN users) + Cardinality(Registering) < NUsers
        /\ Call(t, [route |-> "register_consumer", data |-> d], "rg_email")

\* A lookup that finds nobody.
UsersWithout(us, field, value) == {}

UsersWith(us, field, value) == {u \in DOMAIN us : us[u][field] = value}

\* self._check_db(); existing_user = await self.db.users.find_one({"email": ...})
RegisterFindEmail(t) ==
    /\ At(t, "rg_email")
    /\ UNCHANGED <<store, cache>>
    /\ IF db = "none" THEN Return(t, 503, "Database service unavailable")
       ELSE IF StoreAway THEN Return(t, 500, "Registration failed")
       ELSE IF UsersWith(users, "email", req[t].data.email) # {}
       THEN Return(t, 400, "Email already registered")
       ELSE Goto(t, "rg_username", loc[t])

\* existing_username = await self.db.users.find_one({"username": ...})
RegisterFindUsername(t) ==
    /\ At(t, "rg_username")
    /\ UNCHANGED <<store, cache>>
    /\ IF UsersWith(users, "username", req[t].data.username) # {}
       THEN Return(t, 400, "Username already taken")
       ELSE Goto(t, "rg_insert", loc[t])

\* The unique indexes of the users collection: on email, and on username.
UsersUniqueIndex(us, doc) ==
    /\ UsersWith(us, "email", doc.email) = {}
    /\ UsersWith(us, "username", doc.username) = {}

\* result = await self.db.users.insert_one(user_dict); a DuplicateKeyError
\* is answered 500 by the route's `except Exception`.
RegisterInsert(t) ==
    LET d   == req[t].data
        oid == Cardinality(DOMAIN users) + 1
        doc == [email |-> d.email, username |-> d.username,
                password_hash |-> get_password_hash(d.password),
                role |-> "consumer", profile_picture_url |-> None,
                updated_at |-> "created_at"]
    IN  /\ At(t, "rg_insert")
        /\ UNCHANGED <<photos, photoSeq, ratings, likes, comments, media, cache>>
        /\ IF UsersUniqueIndex(users, doc)
           THEN /\ users' = (oid :> doc) @@ users
                /\ Return(t, 201, UserModel(oid, doc))
           ELSE /\ users' = users
                /\ Return(t, 500, "Registration failed. Error: DuplicateKeyError")

(***************************************************************************)
(* POST /api/auth/login: AuthService.authenticate_user                     *)
(***************************************************************************)
\* utils/security.py: the signed token carries its payload; decoding a token
\* gives the user id in `sub`.
create_access_token(data) == [jwt |-> data]
decode_access_token(token) == [user_id |-> token.jwt.sub, role |-> token.jwt.role]

LoginInputs == {[email |-> e, password |-> w] : e \in Emails, w \in {"secret-1", "guess-1"}}

CallLogin(t) ==
    \E d \in LoginInputs : Call(t, [route |-> "login", data |-> d], "lg_find")

\* user = await self.db.users.find_one({"email": ...}), verify_password, token
LoginFind(t) ==
    LET found == UsersWith(users, "email", req[t].data.email) IN
    /\ At(t, "lg_find")
    /\ UNCHANGED <<store, cache>>
    /\ IF db = "none" THEN Return(t, 503, "Database service unavailable")
       ELSE IF StoreAway THEN Return(t, 500, "Login failed")
       ELSE IF found = {} THEN Return(t, 401, "Incorrect email or password")
       ELSE LET u == CHOOSE x \in found : TRUE IN
            IF ~verify_password(req[t].data.password, users[u].password_hash)
            THEN Return(t, 401, "Incorrect email or password")
            ELSE Return(t, 200,
                        [access_token |-> create_access_token(
                                              [role |-> users[u].role, sub |-> Str(u)]),
                         token_type |-> "bearer"])

(***************************************************************************)
(* GET /api/auth/me: get_current_user_info, behind get_current_user        *)
(***************************************************************************)
\* The user a token's subject names.
Bearer(token) ==
    CHOOSE u \in 1..(NUsers + 1) : Str(u) = decode_access_token(token).user_id

Me(t) ==
    \E u \in DOMAIN users, role \in {"consumer", "creator"} :
        LET token == create_access_token([role |-> role, sub |-> Str(u)])
            r     == [route |-> "me", token |-> token]
            w     == Bearer(token)
        IN  /\ Idle(t)
            /\ IF ~CacheHit(cache, UserKey(Str(w))) /\ StoreAway
               THEN /\ returned' = IF db = "none"
                                   THEN Responds(t, r, 503, "Database service unavailable")
                                   ELSE Responds(t, r, 404, "User not found")
                    /\ cache' = cache
               ELSE /\ cache' = AuthCache(w)
                    /\ returned' = Responds(t, r, 200, AuthUser(w))
            /\ UNCHANGED <<store, pc, req, loc, env>>

(***************************************************************************)
(* POST /api/auth/profile-picture: upload_profile_picture                  *)
(***************************************************************************)
\* The URL the media host gives the new version of a profile picture: one
\* that no user record and no running upload holds.
Pictures == {users[u].profile_picture_url.v :
                u \in {x \in DOMAIN users : ~IsNone(users[x].profile_picture_url)}}
FreshPicture == FreshId(Pictures \cup LocalIds("url"))

BeginProfilePicture(t) ==
    \E u \in UserOids :
        Begin(t, [route |-> "upload_profile_picture", user |-> u], "pp_upload")

\* upload_result = await cloudinary_service.upload_profile_picture(file, id)
ProfileUpload(t) ==
    \E ok \in BOOLEAN :
        /\ At(t, "pp_upload")
        /\ UNCHANGED <<store, cache>>
        /\ IF ok THEN Goto(t, "pp_update", SetFields(loc[t], [url |-> FreshPicture]))
           ELSE Return(t, 500, "Failed to upload profile picture")

\* A $set that also resets the role.
PictureSetAll(doc, url) ==
    SetFields(doc, [role |-> "consumer", profile_picture_url |-> Some(url)])

\* {"$set": {"profile_picture_url": upload_result["url"]}}
PictureSet(doc, url) == SetFields(doc, [profile_picture_url |-> Some(url)])

\* await db.users.update_one({"_id": ...}, {"$set": {"profile_picture_url": url}})
ProfileUpdate(t) ==
    LET u == req[t].user IN
    /\ At(t, "pp_update")
    /\ UNCHANGED <<photos, photoSeq, ratings, likes, comments, media, cache>>
    /\ IF StoreAway
       THEN /\ users' = users
            /\ Return(t, 500, "Failed to upload profile picture")
       ELSE /\ users' = IF u \in DOMAIN users
                        THEN [users EXCEPT ![u] = PictureSet(@, loc[t].url)]
                        ELSE users
            /\ Goto(t, "pp_invalidate", loc[t])

\* An upload that leaves the identity cache alone.
ProfileKeep(t) ==
    /\ At(t, "pp_invalidate")
    /\ UNCHANGED <<store, cache>>
    /\ Goto(t, "pp_find", loc[t])

\* await cache_service.delete(f"user:{current_user.id}")
ProfileInvalidate(t) ==
    /\ At(t, "pp_invalidate")
    /\ cache' = CacheDelete(cache, UserKey(Str(req[t].user)))
    /\ UNCHANGED store
    /\ Goto(t, "pp_find", loc[t])

\* updated_user = await db.users.find_one({"_id": ...}); return UserResponse
ProfileFind(t) ==
    LET u == req[t].user IN
    /\ At(t, "pp_find")
    /\ UNCHANGED <<store, cache>>
    /\ IF u \in DOMAIN users THEN Return(t, 200, UserModel(u, users[u]))
       ELSE Return(t, 404, "User not found")

(***************************************************************************)
(* The cache store expires an entry when its time-to-live runs out.        *)
(***************************************************************************)
Expire ==
    /\ \E k \in DOMAIN cache : cache' = CacheDelete(cache, k)
    /\ returned' = NoResponse
    /\ UNCHANGED <<store, pc, req, loc, env>>

(***************************************************************************)
(* The cache store goes away (the service is disabled, or its calls raise  *)
(* and the exception is swallowed) and comes back.                         *)
(***************************************************************************)
\* The document store becomes unreachable between two requests, and comes
\* back at any moment.
StoreFail ==
    /\ db = "up"
    /\ \A t \in Tasks : Idle(t)
    /\ db' = "down"
    /\ returned' = NoResponse
    /\ UNCHANGED <<store, cache, pc, req, loc, watching, cacheUp, workload, cache_service>>

StoreRecover ==
    /\ db = "down"
    /\ db' = "up"
    /\ returned' = NoResponse
    /\ UNCHANGED <<store, cache, pc, req, loc, watching, cacheUp, workload, cache_service>>

CacheFail ==
    /\ cacheUp
    /\ cacheUp' = FALSE
    /\ returned' = NoResponse
    /\ UNCHANGED <<store, cache, pc, req, loc, watching, db, workload, cache_service>>

CacheRecover ==
    /\ ~cacheUp
    /\ cacheUp' = TRUE
    /\ returned' = NoResponse
    /\ UNCHANGED <<store, cache, pc, req, loc, watching, db, workload, cache_service>>

(***************************************************************************)
(* main.startup_event: await cache_service.connect()                       *)
(***************************************************************************)
\* CacheService.__init__
Constructed == [enabled |-> TRUE, redis_client |-> FALSE]

\* CacheService.connect: from_url and a ping; when the ping raises, the
\* exception is swallowed and the service is disabled.
connect(reachable) ==
    IF reachable THEN [enabled |-> TRUE, redis_client |-> TRUE]
    ELSE [enabled |-> FALSE, redis_client |-> FALSE]

\* Requests are served once the startup event has run.
StartedUp == cache_service # Constructed

Startup ==
    /\ ~StartedUp
    /\ cache_service' = connect(cacheUp)
    /\ returned' = NoResponse
    /\ UNCHANGED <<store, cache, pc, req, loc, watching, cacheUp, db, workload>>

(***************************************************************************)
(* Specifications.                                                         *)
(***************************************************************************)
\* After startup: the accounts exist (user 1 seeded as creator by
\* scripts/create_creator.py, the others registered as consumers), the
\* ratings, likes and comments collections and the cache are empty, no
\* request is in flight.
Seeded ==
    users = [u \in UserOids |->
                [email |-> "user" \o Str(u) \o "@example.com",
                 username |-> "user" \o Str(u),
                 password_hash |-> get_password_hash("pw" \o Str(u)),
                 role |-> IF u = 1 THEN "creator" ELSE "consumer",
                 profile_picture_url |-> None,
                 updated_at |-> "created_at"]]

Serving(watch, load) ==
    /\ ratings = {}
    /\ likes = {}
    /\ comments = {}
    /\ cache = << >>
    /\ pc = [t \in Tasks |-> "idle"]
    /\ req = [t \in Tasks |-> NoRequest]
    /\ loc = [t \in Tasks |-> NoLocals]
    /\ returned = NoResponse
    /\ watching = watch
    /\ cacheUp = TRUE
    /\ db = "up"
    /\ workload = load
    /\ cache_service = [enabled |-> TRUE, redis_client |-> TRUE]

Quiet(watch) == Serving(watch, "any")

Started(watch) == Seeded /\ Quiet(watch)

NoPhoto ==
    /\ photos = << >>
    /\ photoSeq = 0
    /\ media = {}

\* The seeded creator has uploaded one photo.
OnePhoto ==
    /\ photos = (1 :> NewPhoto(Str(1), CHOOSE d \in CreateInputs : TRUE, 1, 1))
    /\ photoSeq = 1
    /\ media = {1}

Init == Started(PhotoWrites) /\ NoPhoto

InitOnePhoto == Started({}) /\ OnePhoto

InitPoint == Started({"rate_photo"}) /\ OnePhoto

InitToggle == Started({"toggle_like"}) /\ OnePhoto

\* After startup on an empty database: nobody has registered yet.
InitEmpty == users = << >> /\ Quiet({}) /\ NoPhoto

CreateSteps(t) ==
    \/ CallCreatePhoto(t) \/ CreateUpload(t) \/ CreateInsert(t) \/ CreateFindUser(t)
    \/ CreateInvalidateListings(t) \/ CreateInvalidateCreator(t)

GetPhotoSteps(t) ==
    \/ CallGetPhoto(t) \/ GetPhotoCache(t) \/ GetPhotoAggregate(t) \/ GetPhotoFill(t)

GetPhotosSteps(t) ==
    \/ CallGetPhotos(t) \/ GetPhotosCache(t) \/ GetPhotosCount(t)
    \/ GetPhotosAggregate(t) \/ GetPhotosFill(t)

GetCreatorPhotosSteps(t) ==
    \/ CallGetCreatorPhotos(t) \/ GetCreatorPhotosCache(t)
    \/ GetCreatorPhotosAggregate(t) \/ GetCreatorPhotosFill(t)

UpdateSteps(t) ==
    \/ CallUpdatePhoto(t) \/ UpdateFind(t) \/ UpdateSet(t) \/ UpdateAggregate(t)
    \/ UpdateInvalidatePoint(t) \/ UpdateInvalidateListings(t) \/ UpdateInvalidateCreator(t)

DeleteSteps(t) ==
    \/ CallDeletePhoto(t) \/ DeleteFind(t) \/ DeleteMedia(t) \/ DeleteDocument(t)
    \/ DeleteComments(t) \/ DeleteRatings(t) \/ DeleteInvalidatePoint(t)
    \/ DeleteInvalidateListings(t) \/ DeleteInvalidateCreator(t)
    \/ DeleteInvalidateRatings(t)

RatingBody(t) ==
    \/ RatingFind(t) \/ RatingExisting(t) \/ RatingUpdate(t)
    \/ RatingInsert(t) \/ RatingRecount(t) \/ RatingAggregate(t) \/ RatingReturn(t)

RatingSteps(t) == CallRating(t) \/ RatingBody(t)

LikeSteps(t) ==
    \/ CallToggleLike(t) \/ LikeFind(t) \/ LikeExisting(t) \/ LikeDelete(t)
    \/ LikeInsert(t) \/ LikeRecount(t) \/ LikeAggregate(t) \/ LikeInvalidateStats(t)
    \/ LikeInvalidatePoint(t) \/ LikeInvalidateListings(t)

CommentSteps(t) == CallComment(t) \/ CommentFind(t) \/ CommentInsert(t)

UpgradeSteps(t) == BeginUpgrade(t) \/ UpgradeUpdate(t) \/ UpgradeReturn(t)

RegisterSteps(t) ==
    CallRegister(t) \/ RegisterFindEmail(t) \/ RegisterFindUsername(t) \/ RegisterInsert(t)

LoginSteps(t) == CallLogin(t) \/ LoginFind(t)

ProfileSteps(t) ==
    \/ BeginProfilePicture(t) \/ ProfileUpload(t) \/ ProfileUpdate(t)
    \/ ProfileInvalidate(t) \/ ProfileFind(t)

\* The photo service, one request at a time, from an empty store.
NextPhotos ==
    \/ CreateSteps(1) \/ GetPhotoSteps(1) \/ GetPhotosSteps(1)
    \/ GetCreatorPhotosSteps(1) \/ UpdateSteps(1) \/ DeleteSteps(1)
SpecPhotos == Init /\ [][NextPhotos]_vars

\* The writers of one photo and its point read, one request at a time.
Next ==
    \/ GetPhotoSteps(1) \/ UpdateSteps(1) \/ DeleteSteps(1)
    \/ RatingSteps(1) \/ LikeSteps(1) \/ CommentSteps(1)
Spec == InitOnePhoto /\ [][Next]_vars

\* Rating requests served concurrently: the event loop switches between
\* handlers at every await.
NextRatings == \E t \in Tasks : RatingSteps(t)
SpecRatings == InitOnePhoto /\ [][NextRatings]_vars

\* Like toggles served concurrently.
NextLikes == \E t \in Tasks : LikeSteps(t)
SpecLikes == InitOnePhoto /\ [][NextLikes]_vars

\* Like toggles served one at a time.
NextToggle == LikeSteps(1)
SpecToggle == InitToggle /\ [][NextToggle]_vars

\* Rating writes and the point read of the photo, one request at a time.
NextPoint == GetPhotoSteps(1) \/ RatingSteps(1)
SpecPoint == InitPoint /\ [][NextPoint]_vars

\* The rating route and the role upgrade behind the authentication
\* dependencies, one request at a time, with identity cache entries expiring.
NextAuth == Expire \/ BeginRating(1) \/ RatingBody(1) \/ UpgradeSteps(1)
SpecAuth == InitOnePhoto /\ [][NextAuth]_vars

\* Registrations served concurrently.
NextRegister == \E t \in Tasks : RegisterSteps(t)
SpecRegister == InitEmpty /\ [][NextRegister]_vars

\* Registration, the role upgrade and the profile picture upload, one
\* request at a time, with identity cache entries expiring.
NextRoles == Expire \/ RegisterSteps(1) \/ UpgradeSteps(1) \/ ProfileSteps(1)
SpecRoles == InitEmpty /\ [][NextRoles]_vars

\* The profile picture upload and the identity read, one request at a time.
NextProfile == ProfileSteps(1) \/ Me(1)
SpecProfile == InitOnePhoto /\ [][NextProfile]_vars

\* Rating writes served concurrently, or like toggles served concurrently:
\* the clients of one behaviour send one kind of request.
InitRecount ==
    /\ Seeded
    /\ \E load \in {"ratings", "likes"} : Serving({}, load)
    /\ OnePhoto

NextRecount ==
    \E t \in Tasks : \/ (workload = "ratings" /\ RatingSteps(t))
                      \/ (workload = "likes" /\ LikeSteps(t))
SpecRecount == InitRecount /\ [][NextRecount]_vars

\* A point read served concurrently with a write of the photo or with
\* another point read.
NextRace ==
    \/ GetPhotoSteps(1) \/ GetPhotoSteps(2)
    \/ UpdateSteps(2) \/ DeleteSteps(2) \/ LikeSteps(2)
SpecRace == InitOnePhoto /\ [][NextRace]_vars

\* Registration, login and the identity read, one request at a time.
NextSession == RegisterSteps(1) \/ LoginSteps(1) \/ Me(1)
SpecSession == InitEmpty /\ [][NextSession]_vars

\* Photo creation, deletion and the pages of the unfiltered listing, one
\* request at a time.
NextPages ==
    \/ CreateSteps(1) \/ DeleteSteps(1)
    \/ CallGetPage(1) \/ GetPhotosCache(1) \/ GetPhotosCount(1)
    \/ GetPhotosAggregate(1) \/ GetPhotosFill(1)
SpecPages == Init /\ [][NextPages]_vars

\* Photo creation, deletion and the listing, one request at a time.
NextUpload == CreateSteps(1) \/ DeleteSteps(1) \/ GetPhotosSteps(1)
SpecUpload == Init /\ [][NextUpload]_vars

\* The point read, the rating route behind its authentication dependency,
\* the like toggle and the comment creation, one request at a time, with the
\* document store unreachable during some of them.
NextStoreOutage ==
    \/ StoreFail \/ StoreRecover
    \/ GetPhotoSteps(1) \/ BeginRating(1) \/ RatingBody(1)
    \/ LikeSteps(1) \/ CommentSteps(1)
SpecStoreOutage == InitOnePhoto /\ [][NextStoreOutage]_vars

\* The reads and the writes of a photo, one request at a time, with the
\* cache store failing and recovering at any moment.
NextCacheOutage ==
    \/ CacheFail \/ CacheRecover
    \/ GetPhotoSteps(1) \/ GetPhotosSteps(1)
    \/ UpdateSteps(1) \/ DeleteSteps(1)
SpecCacheOutage == InitOnePhoto /\ [][NextCacheOutage]_vars


\* delete_photo served concurrently with a comment, a rating or a like toggle.
NextOrphans ==
    \/ DeleteSteps(1)
    \/ CommentSteps(2) \/ RatingSteps(2) \/ LikeSteps(2)
SpecOrphans == InitOnePhoto /\ [][NextOrphans]_vars

\* The five write handlers that invalidate cache entries, and the reads that
\* fill the entries they invalidate, served one request at a time: the
\* clients of one behaviour send photo writes, like toggles or profile
\* picture uploads.
InitInvalidate ==
    /\ Seeded
    /\ \E load \in {"photos", "likes", "profile"} : Serving({}, load)
    /\ OnePhoto

NextInvalidate ==
    \/ (workload = "photos" /\ (CreateSteps(1) \/ UpdateSteps(1) \/ DeleteSteps(1)))
    \/ (workload = "likes" /\ LikeSteps(1))
    \/ (workload = "profile" /\ (ProfileSteps(1) \/ Me(1)))
    \/ (workload # "profile" /\ GetPhotoSteps(1))
SpecInvalidate == InitInvalidate /\ [][NextInvalidate]_vars

(***************************************************************************)
(* CacheService.set and CacheService.get against the clock of the cache    *)
(* store.  Here an entry of `cache` is what the cache store holds for the  *)
(* key: the value, the time-to-live it was stored with and the seconds it  *)
(* has left.  No entry is invalidated: entries leave by expiring.          *)
(***************************************************************************)
\* settings.cache_ttl
cache_ttl == 900

\* The seconds that pass in one step of the cache store's clock.
TickSeconds == 300

\* The ttl argument of set: absent (photo_service), 900 (auth_middleware),
\* and 0 and another override.
TtlInputs == {None, Some(0), Some(300), Some(900)}

TimedKeys == {PhotoKey("1"), UserKey("1")}
TimedValues == {"old", "new"}

\* A set that passes the caller's ttl to setex as it is.
TtlAsGiven(ttl, default) == IF IsNone(ttl) THEN 0 ELSE ttl.v

\* ttl = ttl or settings.cache_ttl
TtlOr(ttl, default) == IF IsNone(ttl) \/ ttl.v = 0 THEN default ELSE ttl.v

\* redis SETEX key seconds value: rejected ("invalid expire time") unless
\* seconds is positive; the entry replaces what the key held.
Setex(c, key, seconds, value) ==
    IF seconds <= 0 THEN c
    ELSE [k \in DOMAIN c \cup {key} |->
             IF k = key THEN [value |-> value, ttl |-> seconds, left |-> seconds]
             ELSE c[k]]

\* await cache_service.set(key, value, ttl): True when stored, False when
\* the call raised.
TimedSet ==
    \E key \in TimedKeys, value \in TimedValues, ttl \in TtlInputs :
        LET seconds == TtlOr(ttl, cache_ttl) IN
        /\ cache' = Setex(cache, key, seconds, value)
        /\ returned' = [route |-> "set", key |-> key, value |-> value,
                        body |-> seconds > 0, ttl |-> ttl]
        /\ UNCHANGED <<store, pc, req, loc, env>>

\* await cache_service.get(key): the value, and how long ago it was stored.
TimedGet ==
    \E key \in TimedKeys :
        /\ returned' = [route |-> "get", key |-> key,
                        body |-> IF key \in DOMAIN cache
                                 THEN Some([value |-> cache[key].value,
                                            ttl |-> cache[key].ttl,
                                            age |-> cache[key].ttl - cache[key].left])
                                 ELSE None]
        /\ UNCHANGED <<store, cache, pc, req, loc, env>>

\* TickSeconds pass: every entry has that much less to live, and the entries
\* whose time has run out are gone.
Tick ==
    /\ cache # << >>
    /\ LET alive == {k \in DOMAIN cache : cache[k].left > TickSeconds}
       IN  cache' = [k \in alive |-> [cache[k] EXCEPT !.left = @ - TickSeconds]]
    /\ returned' = NoResponse
    /\ UNCHANGED <<store, pc, req, loc, env>>

NextTtl == TimedSet \/ TimedGet \/ Tick
InitTtl == Started({}) /\ NoPhoto
SpecTtl == InitTtl /\ [][NextTtl]_vars /\ WF_vars(Tick)

\* Listings with search and location filters over a store nobody writes to.
NextKeys ==
    \/ CallGetSearch(1) \/ GetPhotosCache(1) \/ GetPhotosCount(1)
    \/ GetPhotosAggregate(1) \/ GetPhotosFill(1)
    \/ Expire
SpecKeys == InitOnePhoto /\ [][NextKeys]_vars

\* The photo routes whose responses carry the creator's username, served
\* one request at a time: the clients of one behaviour read, or write.
InitNames ==
    /\ Seeded
    /\ \E load \in {"reads", "writes"} : Serving({}, load)
    /\ OnePhoto

NextNames ==
    \/ (workload = "reads" /\ (\/ GetPhotoSteps(1) \/ GetPhotosSteps(1)
                               \/ GetCreatorPhotosSteps(1)))
    \/ (workload = "writes" /\ (CreateSteps(1) \/ UpdateSteps(1)))
SpecNames == InitNames /\ [][NextNames]_vars

\* Uploads in a burst, and the pages of the unfiltered listing, served one
\* request at a time.
InitTies == Seeded /\ Serving({}, "burst") /\ NoPhoto

NextTies ==
    \/ CreateSteps(1)
    \/ CallGetPage(1) \/ GetPhotosCache(1) \/ GetPhotosCount(1)
    \/ GetPhotosAggregate(1) \/ GetPhotosFill(1)
SpecTies == InitTies /\ [][NextTies]_vars

\* Upgrades, profile picture uploads, and routes behind get_current_consumer
\* and get_current_creator, served one request at a time while identity
\* cache entries expire.
NextStale ==
    \/ Expire
    \/ UpgradeSteps(1) \/ ProfileSteps(1)
    \/ BeginRating(1) \/ RatingBody(1)
    \/ BeginGetCreatorPhotos(1) \/ GetCreatorPhotosCache(1)
    \/ GetCreatorPhotosAggregate(1) \/ GetCreatorPhotosFill(1)
SpecStale == InitOnePhoto /\ [][NextStale]_vars

\* Like toggles and ratings on a photo whose creator lists their photos and
\* updates them, served one request at a time while cache entries expire:
\* the clients of one behaviour toggle likes, or rate.
InitCreatorEntry ==
    /\ Seeded
    /\ \E load \in {"likes", "ratings"} : Serving({}, load)
    /\ OnePhoto

NextCreatorEntry ==
    \/ Expire
    \/ (workload = "likes" /\ LikeSteps(1))
    \/ (workload = "ratings" /\ RatingSteps(1))
    \/ GetCreatorPhotosSteps(1) \/ UpdateSteps(1)
SpecCreatorEntry == InitCreatorEntry /\ [][NextCreatorEntry]_vars

\* Uploads, updates whose body may set the title to null, and point reads,
\* served one request at a time.
NextTitles ==
    \/ CreateSteps(1)
    \/ CallUpdateNull(1) \/ UpdateFind(1) \/ UpdateSet(1) \/ UpdateAggregate(1)
    \/ UpdateInvalidatePoint(1) \/ UpdateInvalidateListings(1)
    \/ UpdateInvalidateCreator(1)
    \/ GetPhotoSteps(1)
SpecTitles == Init /\ [][NextTitles]_vars

\* The process starts while the cache store, which still holds an entry of
\* photo 1 written before the photo's title was changed, is reachable or
\* not; afterwards it serves point reads, listings and updates one at a
\* time while the cache store comes and goes.
InitStartup ==
    /\ Seeded
    /\ OnePhoto
    /\ ratings = {} /\ likes = {} /\ comments = {}
    /\ cache = (PhotoKey("1") :>
                   PhotoResponse(1, SetFields(photos[1], [title |-> Some("old")])))
    /\ pc = [t \in Tasks |-> "idle"]
    /\ req = [t \in Tasks |-> NoRequest]
    /\ loc = [t \in Tasks |-> NoLocals]
    /\ returned = NoResponse
    /\ watching = {}
    /\ cacheUp \in BOOLEAN
    /\ db = "up"
    /\ workload = "any"
    /\ cache_service = Constructed

NextStartup ==
    \/ Startup
    \/ CacheFail \/ CacheRecover
    \/ (StartedUp /\ (GetPhotoSteps(1) \/ GetPhotosSteps(1) \/ UpdateSteps(1)))
SpecStartup == InitStartup /\ [][NextStartup]_vars

(***************************************************************************)
(* Properties.  `returned` is the response delivered by the step just      *)
(* taken; returned.after is the successful write answered just before the  *)
(* request arrived, with nothing in between.                               *)
(***************************************************************************)
Answered(routes) == returned.route \in routes
Follows(routes) ==
    /\ returned # NoResponse
    /\ returned.after # NoResponse
    /\ returned.after.prev.route \in routes

\* The ids of the photos in a list of responses.
ListIds(list) == {list[i].id : i \in 1..Len(list)}

\* total_likes as a response shows it.
TotalLikes(doc) == IF "total_likes" \in DOMAIN doc THEN doc["total_likes"] ELSE 0

PointReadFresh ==
    LET w == returned.after.prev
        o == ObjectId(w.photo_id)
    IN  returned.req.photo_id = w.photo_id =>
          IF w.route = "delete_photo" THEN returned.status = 404
          ELSE /\ returned.status = 200
               /\ o \in DOMAIN photos
               /\ returned.body = PhotoResponse(o, photos[o])

ListingFresh ==
    LET w == returned.after.prev
        r == returned.req
        o == ObjectId(w.photo_id)
    IN  /\ returned.status = 200
        /\ returned.body.photos =
              Responses(photos, ListingOids(photos, r.page, r.page_size, r.search, r.location))
        /\ returned.body.total = CountPhotos(photos, r.page, r.search, r.location)
        /\ w.route = "delete_photo" => w.photo_id \notin ListIds(returned.body.photos)
        /\ (w.route = "create_photo" /\ r.page = 1 /\ Matches(photos[o], r.search, r.location))
              => w.photo_id \in ListIds(returned.body.photos)

CreatorListingFresh ==
    LET w == returned.after.prev IN
    returned.req.user = w.user =>
        /\ returned.status = 200
        /\ returned.body.list = Responses(photos, CreatorOids(photos, Str(w.user)))
        /\ w.route = "delete_photo" => w.photo_id \notin ListIds(returned.body.list)
        /\ w.route = "create_photo" => w.photo_id \in ListIds(returned.body.list)

\* C1: with requests served one at a time, the read that directly follows a
\* successful create_photo, update_photo or delete_photo is fresh: the point
\* read of that photo returns the stored document (404 after a delete), and
\* get_photos (every page, page_size, search, location) and the owner's
\* get_creator_photos return what the store holds, without a deleted photo
\* and with a newly created photo that the request selects.
C1_ReadsAfterPhotoWrite ==
    Follows(PhotoWrites) =>
        /\ Answered({"get_photo"}) => PointReadFresh
        /\ Answered({"get_photos"}) => ListingFresh
        /\ Answered({"get_my_photos"}) => CreatorListingFresh

\* A listing of the remaining photo is answered right after a delete_photo.
C1_Witness ==
    /\ Answered({"get_photos"}) /\ Follows({"delete_photo"})
    /\ returned.status = 200
    /\ Len(returned.body.photos) = 1

\* C2: after create_or_update_rating for photo P returns, the key photo:{P}
\* is not in the cache, and the point read of P that follows returns the
\* stored average_rating and total_ratings.
C2_RatingInvalidatesPoint ==
    /\ (Answered({"rate_photo"}) /\ returned.status = 201)
          => PhotoKey(returned.req.photo_id) \notin DOMAIN cache
    /\ (Answered({"get_photo"}) /\ Follows({"rate_photo"})
          /\ returned.req.photo_id = returned.after.prev.photo_id)
          => LET doc == photos[ObjectId(returned.req.photo_id)] IN
             /\ returned.status = 200
             /\ returned.body.average_rating = doc["average_rating"]
             /\ returned.body.total_ratings = doc["total_ratings"]

\* C3: when a create_or_update_rating on P returns and no other write
\* overlapped it, the stored average_rating of P is the mean of its Rating
\* records rounded to two decimals (kept in hundredths) and total_ratings is
\* their number (ratings 4 and 2 give 3.00 and 2); a photo without Rating
\* records has average_rating 0 and total_ratings 0.
C3_AverageMatchesRatings ==
    /\ (Answered({"rate_photo"}) /\ returned.status = 201 /\ ~returned.overlap) =>
          LET P   == returned.req.photo_id
              doc == photos[ObjectId(P)]
              rs  == {r \in ratings : r.photo_id = P}
          IN  /\ doc["total_ratings"] = Cardinality(rs)
              /\ doc["average_rating"] = Round2(SumRatings(rs), Cardinality(rs))
              /\ (Cardinality(rs) = 2 /\ {r.rating : r \in rs} = {2, 4})
                    => doc["average_rating"] = 300 /\ doc["total_ratings"] = 2
    /\ \A o \in DOMAIN photos :
          {r \in ratings : r.photo_id = Str(o)} = {}
              => photos[o]["average_rating"] = 0 /\ photos[o]["total_ratings"] = 0

\* A rating write that nothing overlapped returns with ratings 4 and 2 stored.
C3_Witness ==
    /\ Answered({"rate_photo"}) /\ returned.status = 201 /\ ~returned.overlap
    /\ Cardinality(ratings) = 2 /\ {r.rating : r \in ratings} = {2, 4}
    /\ photos[1]["average_rating"] = 300

\* C4: when a toggle_like on P returns and no other write overlapped it, the
\* stored total_likes of P is the number of Like records stored for P.
C4_LikesMatchRecords ==
    (Answered({"toggle_like"}) /\ returned.status = 200 /\ ~returned.overlap) =>
        LET P == returned.req.photo_id IN
        photos[ObjectId(P)]["total_likes"] = Cardinality({l \in likes : l.photo_id = P})

\* A toggle that nothing overlapped returns with two Like records counted.
C4_Witness ==
    /\ Answered({"toggle_like"}) /\ returned.status = 200 /\ ~returned.overlap
    /\ Cardinality(likes) = 2
    /\ photos[1]["total_likes"] = 2

C6_OneLikePerPair ==
    \A a, b \in likes : (a.photo_id = b.photo_id /\ a.user_id = b.user_id) => a = b

\* C7: after delete_photo(P) returns successfully, no Comment, Rating or Like
\* record with photo_id = P is left in the store.
C7_DeleteCascades ==
    (Answered({"delete_photo"}) /\ returned.status = 204) =>
        LET P == returned.req.photo_id IN
        /\ \A c \in comments : c.photo_id # P
        /\ \A r \in ratings : r.photo_id # P
        /\ \A l \in likes : l.photo_id # P

\* The like state of the user of the toggle just answered, after a first
\* toggle `first` by the same user on the same photo that started from no
\* Like record: the first created a record and reported liked = true, this
\* one deleted it and reported liked = false, and the pair has no record.
RoundTrip(first) ==
    /\ first.body.liked = TRUE
    /\ returned.body.liked = FALSE
    /\ \A l \in likes : ~(l.photo_id = returned.req.photo_id
                           /\ l.user_id = Str(returned.req.user))

SamePair(w) ==
    w.route = "toggle_like" /\ w.user = returned.req.user
                            /\ w.photo_id = returned.req.photo_id

\* The first of two toggles by the user of the toggle just answered: the
\* toggle answered right before it, or the one before that when another
\* user's toggle came in between.
BackToBack ==
    /\ Answered({"toggle_like"}) /\ returned.status = 200 /\ Follows({"toggle_like"})
    /\ SamePair(returned.after.prev)
    /\ returned.after.prev.had.likes = {}

Interposed ==
    /\ Answered({"toggle_like"}) /\ returned.status = 200 /\ Follows({"toggle_like"})
    /\ ~SamePair(returned.after.prev)
    /\ returned.after.prev2 # NoResponse
    /\ SamePair(returned.after.prev2)
    /\ returned.after.prev2.had.likes = {}

StoredLikes == TotalLikes(photos[ObjectId(returned.req.photo_id)])

\* C8 (as stated): two successive toggle_like calls by one user on one photo,
\* with no other toggle by that user in between, starting from no Like
\* record: the first creates the record and reports liked = true, the second
\* deletes it and reports liked = false, no Like record of the pair is left
\* and total_likes is back at its value before the two calls.
C8_AsStated ==
    /\ BackToBack =>
          /\ RoundTrip(returned.after.prev)
          /\ StoredLikes = TotalLikes(returned.after.prev.target.v)
    /\ Interposed =>
          /\ RoundTrip(returned.after.prev2)
          /\ StoredLikes = TotalLikes(returned.after.prev2.target.v)

\* C8 (amended): with requests served one at a time, the two toggles restore
\* the user's like state (created and liked = true, then deleted and
\* liked = false, no record left); total_likes is back at its prior value
\* when no toggle on the photo came in between, and differs from it by the
\* other user's toggle when one did.
C8_ToggleRoundTrip ==
    /\ BackToBack =>
          /\ RoundTrip(returned.after.prev)
          /\ StoredLikes = TotalLikes(returned.after.prev.target.v)
    /\ Interposed =>
          /\ RoundTrip(returned.after.prev2)
          /\ StoredLikes = TotalLikes(returned.after.prev2.target.v)
                             + (IF returned.after.prev.body.liked THEN 1 ELSE -1)

\* The second of two toggles answered back to back reports liked = false.
C8_Witness ==
    /\ BackToBack
    /\ returned.body.liked = FALSE
    /\ StoredLikes = 0

\* C9: a write that fails validation changes nothing in the store, on the
\* media host or in the cache: update_photo and delete_photo by a user who
\* is not the photo's creator answer 403; update_photo, delete_photo,
\* create_comment, create_or_update_rating and toggle_like on a malformed id
\* or an id that names no photo answer 404.
C9_FailedWritesChangeNothing ==
    Answered({"update_photo", "delete_photo", "add_comment", "rate_photo", "toggle_like"}) =>
        /\ IsNone(returned.target) => returned.status = 404 /\ ~returned.mutated
        /\ (Answered({"update_photo", "delete_photo"}) /\ ~IsNone(returned.target)
              /\ returned.target.v["creator_id"] # Str(returned.req.user))
              => returned.status = 403 /\ ~returned.mutated
        /\ returned.status \in {403, 404} => ~returned.mutated

\* A delete_photo by a user who does not own the photo is refused while the
\* cache and the likes collection hold entries.
C9_Witness ==
    /\ Answered({"delete_photo"}) /\ returned.status = 403
    /\ DOMAIN cache # {}
    /\ likes # {}
    /\ ~returned.mutated

\* C10: a rating is created or updated only for a user whose stored role is
\* consumer.
C10_OnlyConsumersRate ==
    (Answered({"rate_photo"}) /\ returned.status = 201)
        => users[returned.req.user].role = "consumer"

\* The response to a request served while the cache store was away at every
\* one of its steps.
Dark(routes) == returned # NoResponse /\ returned.route \in routes /\ returned.dark

\* What the store dictates for a write of the photo `target` (as stored when
\* the request arrived) by the acting user: the status, and the mutation.
WriteDone ==
    LET r == returned.req
        o == ObjectId(r.photo_id)
    IN  IF IsNone(returned.target) THEN returned.status = 404 /\ ~returned.mutated
        ELSE IF ~Owns(returned.target.v, Str(r.user))
        THEN returned.status = 403 /\ ~returned.mutated
        ELSE IF r.route = "delete_photo"
        THEN returned.status = 204 /\ o \notin DOMAIN photos
        ELSE /\ returned.status = 200
             /\ photos[o] = SetFields(returned.target.v, r.data)
             /\ returned.body = PhotoResponse(o, photos[o])

ListFromStore ==
    LET r == returned.req IN
    /\ returned.status = 200
    /\ returned.body.photos =
          Responses(photos, ListingOids(photos, r.page, r.page_size, r.search, r.location))
    /\ returned.body.total = CountPhotos(photos, r.page, r.search, r.location)

ReadFromStore ==
    LET found == FindPhoto(photos, returned.req.photo_id) IN
    IF IsNone(found) THEN returned.status = 404
    ELSE /\ returned.status = 200
         /\ returned.body = PhotoResponse(found.v, photos[found.v])

\* C11: no cache failure is surfaced.  A point read or a listing served
\* while the cache store is away returns exactly what the document store
\* holds, and a write served while it is away completes its store mutation
\* and reports success (or the error the store alone dictates).
C11_CacheFailuresHidden ==
    /\ Dark({"get_photo"}) => ReadFromStore
    /\ Dark({"get_photos"}) => ListFromStore
    /\ Dark({"update_photo", "delete_photo"}) => WriteDone

\* A read served in the dark while the cache still holds an older entry of
\* the photo (its invalidation was swallowed by the outage).
C11_Witness ==
    /\ Dark({"get_photo"})
    /\ returned.status = 200
    /\ PhotoKey(returned.req.photo_id) \in DOMAIN cache
    /\ cache[PhotoKey(returned.req.photo_id)] # returned.body

\* C12: while the document store is away, a photo, comment, rating or like
\* operation and the authenticated-user lookup answer 503 (or, for a read the
\* cache can serve, the cached value), and never 404.
C12_StoreOutageIs503 ==
    (returned # NoResponse /\ StoreAway) =>
        \/ returned.status = 503
        \/ returned.route = "get_photo" /\ returned.status = 200

\* A delete_photo of photo o that has removed the image and not yet the record.
Unhosting(o) ==
    \E t \in Tasks : /\ req[t].route = "delete_photo"
                      /\ req[t].photo_id = Str(o)
                      /\ pc[t] = "dp_photo"

\* C13: a create_photo whose upload fails answers the failure having inserted
\* no record and invalidated no cache key, and every photo record carries a
\* public id the media host issued for an image it holds (until delete_photo
\* removes the image, then the record).
C13_NoPhotoWithoutUpload ==
    /\ (Answered({"create_photo"}) /\ returned.status = 500) => ~returned.mutated
    /\ \A o \in DOMAIN photos :
          photos[o]["cloudinary_public_id"] \in media \/ Unhosting(o)

\* An upload fails while a photo is stored and a listing is cached.
C13_Witness ==
    /\ Answered({"create_photo"})
    /\ returned.status = 500
    /\ DOMAIN photos # {}
    /\ DOMAIN cache # {}

\* C14: a registration is answered 201, or, when the email or the username
\* is already registered, with a conflict client error and without creating a
\* record, whatever the interleaving of concurrent registrations; and no two
\* user records share an email or a username.
C14_DuplicateIsConflict ==
    /\ Answered({"register_consumer"}) =>
          \/ returned.status = 201
          \/ returned.status \in {400, 409} /\ ~returned.mutated
    /\ \A u, w \in DOMAIN users :
          u # w => users[u].email # users[w].email /\ users[u].username # users[w].username

\* The step being taken is the step at `label` of a request of user u.
StepOf(label, u) ==
    \E t \in Tasks : pc[t] = label /\ pc'[t] # label /\ req[t].user = u

\* C15: a user record is created with the role consumer, by register_consumer;
\* a stored role changes only in the update of upgrade_to_creator, and only
\* from consumer to creator; no other step (the profile picture upload
\* included) changes a role.
C15_RoleOnlyUpgrades ==
    [][\A u \in DOMAIN users' :
          IF u \notin DOMAIN users
          THEN /\ users'[u].role = "consumer"
               /\ \E t \in Tasks : pc[t] = "rg_insert" /\ pc'[t] = "idle"
          ELSE users'[u].role # users[u].role =>
                  /\ users[u].role = "consumer"
                  /\ users'[u].role = "creator"
                  /\ StepOf("ug_update", u)]_vars

\* An upgraded user has uploaded a profile picture.
C15_Witness ==
    /\ Answered({"upload_profile_picture"})
    /\ returned.status = 200
    /\ returned.body.role = "creator"
    /\ ~IsNone(users[returned.req.user].profile_picture_url)

C17_Pagination ==
    Answered({"get_photos"}) =>
        LET b == returned.body
            z == returned.req.page_size
        IN  /\ returned.status = 200
            /\ b.total = Cardinality(DOMAIN photos)
            /\ IF b.total > 0
               THEN b.total_pages * z >= b.total /\ (b.total_pages - 1) * z < b.total
               ELSE b.total_pages = 1
            /\ returned.req.page > b.total_pages => b.photos = << >>

\* A page beyond the last one of a listing of several pages.
C17_Witness ==
    /\ Answered({"get_photos"})
    /\ returned.body.total_pages > 1
    /\ returned.req.page > returned.body.total_pages
    /\ returned.body.photos = << >>

\* The user records holding an email, or a username.
HasEmail(e)    == {u \in DOMAIN users : users[u].email = e}
HasUsername(n) == {u \in DOMAIN users : users[u].username = n}

\* C18: registering an email and a username nobody holds answers the created
\* user, with role consumer; a login with a registered email and the password
\* it was registered with answers a bearer token of that user; and
\* get_current_user with a token answers the email and username of the user
\* the token was issued to.
C18_RegisterLoginMe ==
    /\ Answered({"register_consumer"}) =>
          LET d == returned.req.data IN
          IF returned.status = 201
          THEN /\ returned.body.email = d.email
               /\ returned.body.username = d.username
               /\ returned.body.role = "consumer"
               /\ HasEmail(d.email) = {ObjectId(returned.body.id)}
               /\ HasUsername(d.username) = {ObjectId(returned.body.id)}
          ELSE /\ returned.status = 400
               /\ ~returned.mutated
               /\ HasEmail(d.email) # {} \/ HasUsername(d.username) # {}
    /\ Answered({"login"}) =>
          LET d == returned.req.data IN
          IF HasEmail(d.email) # {} /\ d.password = "secret-1"
          THEN /\ returned.status = 200
               /\ returned.body.token_type = "bearer"
               /\ HasEmail(d.email) = {Bearer(returned.body.access_token)}
          ELSE returned.status = 401
    /\ Answered({"me"}) =>
          LET u == Bearer(returned.req.token) IN
          /\ returned.status = 200
          /\ returned.body.id = Str(u)
          /\ returned.body.email = users[u].email
          /\ returned.body.username = users[u].username

\* The second registered user logs in.
C18_Witness ==
    /\ Answered({"login"})
    /\ returned.status = 200
    /\ Bearer(returned.body.access_token) = 2

\* The cached point entry of photo_id, if any, is what the store holds.
PointEntryFresh(photo_id) ==
    CacheHit(cache, PhotoKey(photo_id)) =>
        LET found == FindPhoto(photos, photo_id) IN
        /\ ~IsNone(found)
        /\ cache[PhotoKey(photo_id)] = PhotoResponse(found.v, photos[found.v])

\* C19: when a write of photo P and a point read of P that missed the cache
\* have overlapped in any way and both have returned, the cache holds no entry
\* of P older than the write, so that every later point read of P answers
\* state at least as new as the write.
C19_NoStaleFill ==
    (\A t \in Tasks : Idle(t)) => \A p \in PhotoIdInputs : PointEntryFresh(p)

\* The step being taken moves task t from one await to the next one.
Moves(t, from, to) == pc[t] = from /\ pc'[t] = to

\* avg is the mean of the ratings rs in hundredths, rounded to the nearest
\* hundredth (0 for no ratings).
IsMean(avg, rs) ==
    IF rs = {} THEN avg = 0
    ELSE LET d == 100 * SumRatings(rs) - avg * Cardinality(rs)
         IN  2 * d <= Cardinality(rs) /\ 2 * (0 - d) <= Cardinality(rs)

\* C20: under concurrent rating writes (or concurrent like toggles), what a
\* handler writes into a photo's (average_rating, total_ratings) pair (or its
\* total_likes) is a full recount of the photo's ratings (likes) as they
\* stood at one moment, the handler's recount step, and the pair is written
\* in one update: both fields from the same recount.
C20_RecountWritten ==
    [][/\ \A t \in Tasks :
            /\ Moves(t, "cr_ratings", "cr_photo") =>
                  LET rs == {r \in ratings : r.photo_id = req[t].photo_id} IN
                  /\ loc'[t].total_ratings = Cardinality(rs)
                  /\ IsMean(loc'[t].average_rating, rs)
            /\ Moves(t, "tl_count", "tl_photo") =>
                  loc'[t].total_likes
                      = Cardinality({l \in likes : l.photo_id = req[t].photo_id})
            /\ Moves(t, "cr_photo", "cr_photo") =>
                  /\ loc'[t].total_ratings = loc[t].total_ratings
                  /\ loc'[t].average_rating = loc[t].average_rating
            /\ Moves(t, "tl_photo", "tl_photo") =>
                  loc'[t].total_likes = loc[t].total_likes
       /\ \A o \in DOMAIN photos \cap DOMAIN photos' :
            /\ (\/ photos'[o]["average_rating"] # photos[o]["average_rating"]
                \/ photos'[o]["total_ratings"] # photos[o]["total_ratings"]) =>
                  \E t \in Tasks :
                      /\ Moves(t, "cr_photo", "cr_get")
                      /\ req[t].photo_id = Str(o)
                      /\ photos'[o]["average_rating"] = loc[t].average_rating
                      /\ photos'[o]["total_ratings"] = loc[t].total_ratings
            /\ TotalLikes(photos'[o]) # TotalLikes(photos[o]) =>
                  \E t \in Tasks :
                      /\ Moves(t, "tl_photo", "tl_inv_stats")
                      /\ req[t].photo_id = Str(o)
                      /\ TotalLikes(photos'[o]) = loc[t].total_likes]_vars

\* Two rating writes have overlapped and the later update_one carried the
\* earlier recount: the stored count is that of an earlier moment.
C20_Witness ==
    /\ \A t \in Tasks : Idle(t)
    /\ \E o \in DOMAIN photos :
          photos[o]["total_ratings"]
              # Cardinality({r \in ratings : r.photo_id = Str(o)})

\* The photo a child record refers to is stored.
Parented(photo_id) == ~IsNone(FindPhoto(photos, photo_id))

\* C21: when a delete_photo and the comment, rating and like requests that
\* overlapped it have all finished, every Comment, Rating and Like record
\* refers to a photo that exists.
C21_NoOrphans ==
    (\A t \in Tasks : Idle(t)) =>
        /\ \A c \in comments : Parented(c.photo_id)
        /\ \A r \in ratings : Parented(r.photo_id)
        /\ \A l \in likes : Parented(l.photo_id)

\* The awaits of the write handlers at which a cache delete is issued, and
\* the awaits that follow the last one.
Invalidating ==
    {"cp_inv_list", "cp_inv_creator",
     "up_inv_point", "up_inv_list", "up_inv_creator",
     "dp_inv_point", "dp_inv_list", "dp_inv_creator", "dp_inv_ratings",
     "tl_inv_stats", "tl_inv_point", "tl_inv_list",
     "pp_invalidate"}
Invalidated == {"pp_find"}

\* C22: in create_photo, update_photo, delete_photo, toggle_like and
\* upload_profile_picture every cache invalidation follows the handler's
\* store mutation and recount and precedes its return: a handler removes
\* cache entries only at its invalidation awaits, and from its first
\* invalidation await until it returns it writes nothing to the store.
C22_InvalidateAfterWrite ==
    [][\A t \in Tasks :
          pc'[t] # pc[t] =>
              /\ (\E k \in DOMAIN cache : k \notin DOMAIN cache') =>
                     pc[t] \in Invalidating
              /\ pc[t] \in Invalidating \cup Invalidated =>
                     /\ store' = store
                     /\ pc'[t] \in Invalidating \cup Invalidated \cup {"idle"}
              /\ pc[t] \in Invalidated => pc'[t] = "idle"]_vars

\* A like toggle has written the photo's like count and is about to delete
\* the photo's cached point entry.
C22_Witness ==
    \E t \in Tasks :
        /\ pc[t] = "tl_inv_point"
        /\ CacheHit(cache, PhotoKey(req[t].photo_id))
        /\ TotalLikes(photos[ObjectId(req[t].photo_id)]) = 1

\* The step being taken is a set of key k.
SetsKey(k) == returned'.route = "set" /\ returned'.key = k

\* C23: every cache entry is stored with a positive time-to-live, the
\* caller's override or the configured default when the override is absent
\* or 0; an entry that is not rewritten eventually expires; and with no
\* invalidation at all, no value is served more than its ttl after it was
\* stored.
C23_EntriesExpire ==
    /\ [](\A k \in DOMAIN cache :
             /\ cache[k].ttl > 0
             /\ cache[k].left > 0 /\ cache[k].left <= cache[k].ttl)
    /\ [](returned.route = "set" =>
             /\ returned.body
             /\ returned.key \in DOMAIN cache
             /\ cache[returned.key].value = returned.value
             /\ cache[returned.key].ttl
                   = (IF IsNone(returned.ttl) \/ returned.ttl.v = 0
                      THEN cache_ttl ELSE returned.ttl.v))
    /\ [](returned.route = "get" /\ ~IsNone(returned.body) =>
             returned.body.v.age < returned.body.v.ttl)
    /\ \A k \in TimedKeys :
          []<>(k \notin DOMAIN cache) \/ []<><<SetsKey(k)>>_vars

\* A value stored without a ttl of the caller's is served when two thirds of
\* the default time-to-live have passed.
C23_Witness ==
    /\ returned.route = "get"
    /\ ~IsNone(returned.body)
    /\ returned.body.v.ttl = cache_ttl
    /\ returned.body.v.age = 2 * TickSeconds

\* C24: the listing cache key is an injective function of (page, page_size,
\* search, location): two get_photos requests with different tuples never
\* read or write the same cache entry, so with nobody writing to the store
\* every listing returned is the listing of the request's own tuple.
C24_KeyInjective == Answered({"get_photos"}) => ListFromStore

\* The photos a successful response of a photo route carries.
Carried ==
    IF returned.route = "get_photos" THEN {returned.body.photos[i] :
                                              i \in 1..Len(returned.body.photos)}
    ELSE IF returned.route = "get_my_photos" THEN {returned.body.list[i] :
                                                      i \in 1..Len(returned.body.list)}
    ELSE {returned.body}

\* C25: the photos returned by get_photo_by_id, get_photos,
\* get_creator_photos, create_photo and update_photo carry the current
\* username of the user whose id is the photo's creator_id, and "Unknown
\* User" only when no such user exists.
C25_UsernameCarried ==
    Answered({"get_photo", "get_photos", "get_my_photos", "create_photo", "update_photo"})
        /\ returned.status \in {200, 201} =>
            \A p \in Carried :
                LET creator == {u \in DOMAIN users : Str(u) = p.creator_id}
                IN  IF creator = {} THEN p.username = "Unknown User"
                    ELSE \E u \in creator : p.username = users[u].username

\* The ids on the cached page `page` of the unfiltered listing with page
\* size z.  Every write deletes all cached pages before it returns, so with
\* requests served one at a time the pages cached together were read from
\* the store with no write in between, each on a cache miss.
PageKey(page, z) == ListKey(page, z, None, None)
CachedPage(page, z) == ListIds(cache[PageKey(page, z)].photos)

\* C26: get_photos orders by upload_date descending, ties broken by id: the
\* pages 1..total_pages of one query, read with no write in between and none
\* of them served from the cache, are pairwise disjoint and together hold
\* every photo exactly once, also when photos share an upload_date.
C26_PagesPartition ==
    (\A t \in Tasks : Idle(t)) =>
        \A z \in 1..MaxPageSize :
            LET pages == {p \in 1..MaxPage : PageKey(p, z) \in DOMAIN cache} IN
            /\ \A p, q \in pages : p # q => CachedPage(p, z) \cap CachedPage(q, z) = {}
            /\ (\A p \in 1..TotalPages(Cardinality(DOMAIN photos), z) : p \in pages) =>
                   UNION {CachedPage(p, z) : p \in pages} = {Str(o) : o \in DOMAIN photos}

\* The identity cache holds an unexpired entry of user u with role consumer.
CachedConsumer(u) ==
    /\ CacheHit(cache, UserKey(Str(u)))
    /\ cache[UserKey(Str(u))].role = "consumer"

\* C27: upgrade_to_creator changes only role and updated_at of the acting
\* user's record and leaves the identity cache as it is; while the entry
\* user:{id} with role consumer is unexpired, a route behind
\* get_current_creator rejects the user and a route behind
\* get_current_consumer accepts them.
C27_UpgradeFrame ==
    [][\A t \in Tasks :
          /\ Moves(t, "ug_update", "ug_get") =>
                LET u == req[t].user IN
                /\ DOMAIN users' = DOMAIN users
                /\ \A x \in DOMAIN users \ {u} : users'[x] = users[x]
                /\ \A f \in DOMAIN users[u] \ {"role", "updated_at"} :
                      users'[u][f] = users[u][f]
                /\ users'[u].role = "creator"
                /\ UNCHANGED <<photos, photoSeq, ratings, likes, comments, media>>
          /\ (pc[t] \in {"ug_update", "ug_get"} /\ pc'[t] # pc[t]) => cache' = cache
          /\ \A u \in DOMAIN users :
                CachedConsumer(u) /\ Idle(t) =>
                    /\ (~Idle(t)' /\ req'[t].user = u) =>
                          RoleNeeded(req'[t].route) # "creator"
                    /\ (/\ returned' # NoResponse
                        /\ returned'.status = 403
                        /\ returned'.req.user = u) =>
                          RoleNeeded(returned'.route) = "creator"]_vars

\* A user whose stored role is creator, upgraded after uploading a profile
\* picture, has just been rejected by get_current_creator on the cached role.
C27_Witness ==
    /\ Answered({"get_my_photos"})
    /\ returned.status = 403
    /\ users[returned.req.user].role = "creator"
    /\ users[returned.req.user].updated_at = "upgrade"
    /\ ~IsNone(users[returned.req.user].profile_picture_url)
    /\ CachedConsumer(returned.req.user)

\* The cached photo list of creator u is as it was before the step.
CreatorEntryKept(u) ==
    CreatorKey(Str(u)) \in DOMAIN cache =>
        /\ CreatorKey(Str(u)) \in DOMAIN cache'
        /\ cache'[CreatorKey(Str(u))] = cache[CreatorKey(Str(u))]

\* C28: toggle_like and create_or_update_rating leave the entry
\* creator_photos:{creator_id} unchanged; get_creator_photos served from the
\* entry reports the photo's total_likes, average_rating and total_ratings
\* as cached, until the entry expires or that creator creates, updates or
\* deletes a photo.
C28_CreatorEntryFrame ==
    [][\A u \in UserOids :
          /\ \A t \in Tasks :
                /\ (pc'[t] # pc[t] /\ req[t].route \in {"toggle_like", "rate_photo"}) =>
                      CreatorEntryKept(u)
                /\ (/\ Moves(t, "gc_cache", "idle")
                    /\ req[t].user = u
                    /\ CacheHit(cache, CreatorKey(Str(u)))) =>
                      /\ returned'.status = 200
                      /\ returned'.body = cache[CreatorKey(Str(u))]
          /\ ~CreatorEntryKept(u) =>
                \/ \A t \in Tasks : pc'[t] = pc[t]
                \/ \E t \in Tasks : /\ pc'[t] # pc[t]
                                     /\ req[t].route \in PhotoWrites
                                     /\ req[t].user = u]_vars

\* The creator's list has been served from the entry with the photo's like
\* count, or its rating figures, of before a write.
C28_Witness ==
    /\ Answered({"get_my_photos"})
    /\ returned.status = 200
    /\ ~returned.mutated
    /\ \E i \in 1..Len(returned.body.list) :
          LET p == returned.body.list[i]
              d == photos[ObjectId(p.id)]
          IN  \/ p.total_likes # TotalLikes(d)
              \/ p.total_ratings # d["total_ratings"]

\* C29: every stored photo has a title of at least one character: neither
\* create_photo nor any update_photo (one that sets title to null included)
\* stores an absent or empty title, so every stored photo can be returned as
\* a PhotoResponse.
C29_TitleStored ==
    \A o \in DOMAIN photos :
        /\ ~IsNone(photos[o]["title"])
        /\ Len(photos[o]["title"].v) >= 1
        /\ ValidPhoto(photos[o])

\* The service was disabled by a failed connect at startup.
Disabled == StartedUp /\ ~cache_service.enabled

\* C30: when connecting to the cache store fails at startup, startup still
\* completes, and from then on the service stays disabled: get answers
\* absent (reads are answered from the document store, also when the cache
\* store is reachable again and holds an entry) and set, delete and
\* delete_pattern change nothing in the cache store.
C30_DisabledForGood ==
    /\ [](~StartedUp => ENABLED Startup)
    /\ [][/\ (~StartedUp /\ cache_service' # cache_service) =>
                (StartedUp' /\ (cacheUp \/ Disabled'))
          /\ Disabled => (Disabled' /\ cache' = cache)]_vars
    /\ [](Disabled /\ Answered({"get_photo"}) => ReadFromStore)
    /\ [](Disabled /\ Answered({"get_photos"}) => ListFromStore)

\* Startup failed to connect; the cache store is reachable again and holds
\* an older entry of photo 1, and a point read of photo 1 has been answered.
C30_Witness ==
    /\ Disabled
    /\ cacheUp
    /\ Answered({"get_photo"})
    /\ returned.status = 200
    /\ PhotoKey(returned.req.photo_id) \in DOMAIN cache
    /\ cache[PhotoKey(returned.req.photo_id)] # returned.body

====
